---- MODULE Spec2Model ----
(***************************************************************************)
(* Average Hero: MIDI chart generation (utils/midiUtils.ts) and the        *)
(* per-frame gameplay engine (components/GameScene.tsx).                   *)
(*                                                                         *)
(* Units.  Times and durations are integer milliseconds.  The per-hand     *)
(* gate lastTimeForHand holds time + length*0.5, so it is kept in          *)
(* half-milliseconds (twice the value in ms) to stay exact.                *)
(***************************************************************************)
EXTENDS Integers, Sequences, FiniteSets

VARIABLES
    difficulty,        \* generateChartFromMidi's second argument
    midi,              \* the decoded MIDI file: a sequence of tracks
    genPc,             \* where generateChartFromMidi stands: idle, loop, done
    allEvents,         \* the flattened, time-sorted events
    i,                 \* the loop index (1-based)
    notes,             \* the chart being built
    backgroundEvents,  \* the background list being built
    idCount,           \* the id counter
    lastTimeForHand,   \* per hand, in half-milliseconds
    returned,          \* the results returned by the calls made so far
    gameStatus,        \* App's gameStatus
    gameMode,          \* GameScene's gameMode prop
    chart,             \* GameScene's chart prop (App's gameChart)
    notesState,        \* GameScene's deep copy of the chart, with the note state
    activeNotesRef,    \* the active notes: indices into notesState, in push order
    nextNoteIndexRef,  \* the spawn cursor (0-based, as in the source)
    clock,             \* Tone.Transport.seconds, in ms
    hands,             \* handPositionsRef.current as read by the last frame
    emitted,           \* the callbacks invoked by the last frame, in order
    hitCalls,          \* per note, the onNoteHit calls so far
    missCalls,         \* per note, the onNoteMiss calls so far
    transport,         \* Tone.Transport.state: started, paused, stopped
    pendingStatus,     \* a setGameStatus value not yet rendered, or <<>>
    pausedAt,          \* the clock value the game was paused at, until the
                       \* first frame after the resume (or the end of the
                       \* game); <<>> otherwise
    noteTime,          \* what Note's frame callback read from the transport in
                       \* the tick of the last frame (ms), <<>> before it ran
    trace,             \* the frames of a first game: per frame, the clock value
                       \* and the hand slot it read, the callbacks it invoked
                       \* and the notes' state it left
    replay,            \* 0 during the first game; in the second game on the
                       \* same chart, the position in trace of its next frame
    score,             \* App's score
    combo,             \* App's combo
    multiplier,        \* App's multiplier
    health,            \* App's health
    endGameDue,        \* handleNoteMiss has set the timeout that ends the game
    keysoundThrew,     \* a keysound trigger threw in a hit of the last frame
    shakeIntensity,    \* GameScene's shakeIntensity ref, in thousandths
    visibleNotes,      \* GameScene's memoized visibleNotes, as indices of notesState
    errorMessage,      \* App's errorMessage: <<>> for null, or the message's parts
    selectedSong,      \* App's selectedSong: <<>> for null, or <<song>>
    isSongLoading,     \* App's isSongLoading
    loading,           \* the load in flight (handleSongSelect or preloadSong
                       \* awaiting loadMidi, then generating), or <<>>
    preloaded,         \* preloadedDataRef: <<>>, or the index in returned of
                       \* the entry cached for the song that loads
    countdown,         \* App's countdown: <<>> for null, or <<seconds>>
    intervals,         \* the countdown intervals set and not yet cleared
    scheduled          \* what startMusic has scheduled on the transport

genVars == <<difficulty, midi, genPc, allEvents, i, notes, backgroundEvents,
             idCount, lastTimeForHand, returned>>

engineVars == <<gameStatus, gameMode, chart, notesState, activeNotesRef,
                nextNoteIndexRef, clock, hands, emitted, hitCalls, missCalls,
                transport, pendingStatus, pausedAt>>

renderVars == <<noteTime>>

replayVars == <<trace, replay>>

scoreVars == <<score, combo, multiplier, health, endGameDue, keysoundThrew>>

sceneVars == <<shakeIntensity, visibleNotes>>

uiVars == <<errorMessage, selectedSong, isSongLoading, loading, preloaded,
            countdown, intervals, scheduled>>

appVars == <<renderVars, replayVars, scoreVars, sceneVars, uiVars>>

vars == <<genVars, engineVars, appVars>>

-----------------------------------------------------------------------------
(* Bounds of the model *)

\* The most note events a MIDI input holds, over all its tracks.
MaxEvents == 2

\* The calls of generateChartFromMidi made on one input.
MaxCalls == 2

\* Event times (ms): 0 and 20 are a chord 20 ms apart; 700 is beyond every
\* difficulty's gap after a single hit at 0, and within the Easy gap after a
\* hold of 300 ms at 0 (0 + 150 + 600 > 700).
Times == {0, 20, 700}

\* kick / bass (36), hi-hat / bass (42), and the two sides of the hand split.
Pitches == {36, 42, 61, 62}

\* 200 is the longest duration that is still a single hit; 300 is a hold.
Durations == {200, 300}

Velocities == {80}

Difficulties == {"Easy", "Medium", "Hard"}

HandTypes == {"left", "right"}

-----------------------------------------------------------------------------
(* Helpers *)

Abs(x) == IF x < 0 THEN -x ELSE x

\* JavaScript's null, for a hand that is not tracked.
Null == [null |-> TRUE]

RECURSIVE SumLen(_)
SumLen(tracks) ==
    IF tracks = <<>> THEN 0
    ELSE Len(Head(tracks).notes) + SumLen(Tail(tracks))

\* The note name @tonejs/midi derives from the pitch: pitch class and octave.
NoteName(midiNote) == <<midiNote % 12, (midiNote \div 12) - 1>>

-----------------------------------------------------------------------------
(* generateChartFromMidi *)

minTimeGap(d) ==
    IF d = "Easy" THEN 600 ELSE IF d = "Medium" THEN 350 ELSE 150

getInstrumentType(track, midiNote) ==
    IF track.percussion \/ track.channel = 9
    THEN IF midiNote = 36 \/ midiNote = 35 THEN "kick"
         ELSE IF midiNote = 38 \/ midiNote = 40 THEN "snare"
         ELSE IF midiNote >= 42 /\ midiNote <= 46 THEN "hihat"
         ELSE "snare"
    ELSE IF midiNote < 50 THEN "bass" ELSE "lead"

\* track.notes.map(...): one event per note, the track's instrument attached.
RECURSIVE MapTrack(_, _)
MapTrack(track, ns) ==
    IF ns = <<>> THEN <<>>
    ELSE << [time           |-> Head(ns).time,
             midi           |-> Head(ns).midi,
             name           |-> Head(ns).name,
             velocity       |-> Head(ns).velocity,
             duration       |-> Head(ns).duration,
             instrumentType |-> getInstrumentType(track, Head(ns).midi)] >>
         \o MapTrack(track, Tail(ns))

\* midi.tracks.flatMap(...)
RECURSIVE FlatMap(_)
FlatMap(tracks) ==
    IF tracks = <<>> THEN <<>>
    ELSE MapTrack(Head(tracks), Head(tracks).notes) \o FlatMap(Tail(tracks))

\* Array.prototype.sort with (a, b) => a.time - b.time is stable: an event
\* goes after every event whose time is not greater than its own.
RECURSIVE InsertByTime(_, _)
InsertByTime(e, sorted) ==
    IF sorted = <<>> THEN <<e>>
    ELSE IF Head(sorted).time <= e.time
         THEN <<Head(sorted)>> \o InsertByTime(e, Tail(sorted))
         ELSE <<e>> \o sorted

\* An insertion that puts an event before the events of its own time.
RECURSIVE InsertBeforeTies(_, _)
InsertBeforeTies(e, sorted) ==
    IF sorted = <<>> THEN <<e>>
    ELSE IF Head(sorted).time < e.time
         THEN <<Head(sorted)>> \o InsertBeforeTies(e, Tail(sorted))
         ELSE <<e>> \o sorted

\* Mutant of SortByTime: a sort that is not stable, events of equal time
\* come out in the reverse of their encounter order.
RECURSIVE SortByTimeTiesReversed(_)
SortByTimeTiesReversed(events) ==
    IF events = <<>> THEN <<>>
    ELSE InsertBeforeTies(events[Len(events)],
                          SortByTimeTiesReversed(SubSeq(events, 1, Len(events) - 1)))

RECURSIVE SortByTime(_)
SortByTime(events) ==
    IF events = <<>> THEN <<>>
    ELSE InsertByTime(events[Len(events)],
                      SortByTime(SubSeq(events, 1, Len(events) - 1)))

\* const lastNoteTimeGlobal = -1 (seconds); never reassigned.
lastNoteTimeGlobal == -1000

\* Mutant of HandFor: the split point off by one.
HandForSplitOffByOne(midiNote) == IF midiNote <= 62 THEN "left" ELSE "right"

\* let type = note.midi < 62 ? 'left' : 'right'
HandFor(midiNote) == IF midiNote < 62 THEN "left" ELSE "right"

\* Math.sin(note.time * 123.45) > 0.  With t in ms the angle is
\* t * 0.12345 rad; the sine is positive on the even half-periods, and is 0
\* (not positive) at t = 0.  100000 * pi is 314159.27; the integer quotient
\* below agrees with the floating-point sine for every t in 0..20000 ms.
HashPositive(t) == t > 0 /\ ((t * 12345) \div 314159) % 2 = 0

\* Mutant of LineIndex: the right hand's two lanes exchanged.
LineIndexRightExchanged(type, t) ==
    IF type = "left"
    THEN (IF HashPositive(t) THEN 1 ELSE 0)
    ELSE (IF HashPositive(t) THEN 3 ELSE 2)

LineIndex(type, t) ==
    IF type = "left"
    THEN (IF HashPositive(t) THEN 1 ELSE 0)
    ELSE (IF HashPositive(t) THEN 2 ELSE 3)

\* Mutant of LineLayer: the two thresholds belong to the outer layers.
LineLayerInclusive(midiNote) ==
    IF midiNote <= 55 THEN 0 ELSE IF midiNote >= 70 THEN 2 ELSE 1

\* if (note.midi < 55) lineLayer = 0; else if (note.midi > 70) lineLayer = 2;
\* else lineLayer = 1
LineLayer(midiNote) ==
    IF midiNote < 55 THEN 0 ELSE IF midiNote > 70 THEN 2 ELSE 1

\* Mutant of NoteLength: a duration of exactly 0.2 s is a hold.
NoteLengthInclusive(duration) == IF duration >= 200 THEN duration ELSE 0

\* const length = note.duration > 0.2 ? note.duration : 0
NoteLength(duration) == IF duration > 200 THEN duration ELSE 0

\* Mutant of ShouldBeInteractive: the rhythm section is not excluded.
ShouldBeInteractiveWithRhythm(note, d, lastForHand) ==
    /\ ~(note.instrumentType = "hihat" /\ d # "Hard")
    /\ ~(Abs(note.time - lastNoteTimeGlobal) < 50 /\ d # "Hard")
    /\ ~(2 * note.time - lastForHand[HandFor(note.midi)] < 2 * minTimeGap(d))

\* The filter of one event: the three exclusions, then the per-hand gate.
ShouldBeInteractive(note, d, lastForHand) ==
    /\ ~(note.instrumentType = "hihat" /\ d # "Hard")
    /\ ~(note.instrumentType = "kick" \/ note.instrumentType = "bass")
    /\ ~(Abs(note.time - lastNoteTimeGlobal) < 50 /\ d # "Hard")
    /\ ~(2 * note.time - lastForHand[HandFor(note.midi)] < 2 * minTimeGap(d))

AudioData(note) ==
    [instrument |-> note.instrumentType,
     midi       |-> note.midi,
     name       |-> note.name,
     duration   |-> note.duration,
     velocity   |-> note.velocity]

MakeNote(note, id) ==
    [id           |-> id,
     time         |-> note.time,
     length       |-> NoteLength(note.duration),
     lineIndex    |-> LineIndex(HandFor(note.midi), note.time),
     lineLayer    |-> LineLayer(note.midi),
     type         |-> HandFor(note.midi),
     cutDirection |-> "ANY",
     audio        |-> AudioData(note)]

MakeBackground(note) ==
    [time       |-> note.time,
     instrument |-> note.instrumentType,
     name       |-> note.name,
     duration   |-> note.duration,
     velocity   |-> note.velocity]

\* Mutant of NextLastTime: a hold reserves none of its own duration.
NextLastTimeWithoutLength(note) == 2 * note.time

\* lastTimeForHand[type] = note.time + length * 0.5 (half-milliseconds)
NextLastTime(note) == 2 * note.time + NoteLength(note.duration)

\* The inputs ------------------------------------------------------------

\* The notes of the inputs; a hold only at time 0, where a later note of the
\* same hand can fall within its reserve.
MidiNotes ==
    { n \in { [time |-> t, midi |-> p, name |-> NoteName(p), velocity |-> v,
               duration |-> du] :
                 t \in Times, p \in Pitches, v \in Velocities, du \in Durations } :
        n.time # 0 => n.duration = 200 }

NoteSeqs(n) == [1..n -> MidiNotes]

\* A drum track (percussion, channel 9) and a melodic track.
MidiInputs ==
    { << [percussion |-> TRUE,  channel |-> 9, notes |-> a],
         [percussion |-> FALSE, channel |-> 0, notes |-> b] >> :
        <<a, b>> \in UNION { NoteSeqs(n) \X NoteSeqs(m) :
                               <<n, m>> \in { <<x, y>> \in (0..MaxEvents) \X (0..MaxEvents) :
                                               x + y <= MaxEvents } } }

\* The call ----------------------------------------------------------------

\* The engine before any game: no chart, nothing active.
EngineIdle ==
    /\ gameStatus = "SONG_SELECTION"
    /\ gameMode = "STANDARD"
    /\ chart = <<>>
    /\ notesState = <<>>
    /\ activeNotesRef = <<>>
    /\ nextNoteIndexRef = 0
    /\ clock = 0
    /\ hands = [left |-> Null, right |-> Null]
    /\ emitted = <<>>
    /\ hitCalls = <<>>
    /\ missCalls = <<>>
    /\ transport = "stopped"
    /\ pendingStatus = <<>>
    /\ pausedAt = <<>>

\* The rest of the application before any game.
AppIdle ==
    /\ noteTime = <<>>
    /\ trace = <<>>
    /\ replay = 0
    /\ score = 0
    /\ combo = 0
    /\ multiplier = 1
    /\ health = 100
    /\ endGameDue = FALSE
    /\ keysoundThrew = FALSE
    /\ shakeIntensity = 0
    /\ visibleNotes = {}
    /\ errorMessage = <<>>
    /\ selectedSong = <<>>
    /\ isSongLoading = FALSE
    /\ loading = <<>>
    /\ preloaded = <<>>
    /\ countdown = <<>>
    /\ intervals = 0
    /\ scheduled = <<>>

InitGen ==
    /\ difficulty \in Difficulties
    /\ midi \in MidiInputs
    /\ genPc = "idle"
    /\ allEvents = <<>>
    /\ i = 1
    /\ notes = <<>>
    /\ backgroundEvents = <<>>
    /\ idCount = 0
    /\ lastTimeForHand = [h \in HandTypes |-> -2000]
    /\ returned = <<>>
    /\ EngineIdle
    /\ AppIdle

\* Mutant of GenCall: the id counter outlives the call.
GenCallKeepsIdCount ==
    /\ genPc = "idle"
    /\ Len(returned) < MaxCalls
    /\ genPc' = "loop"
    /\ notes' = <<>>
    /\ backgroundEvents' = <<>>
    /\ allEvents' = SortByTime(FlatMap(midi))
    /\ lastTimeForHand' = [h \in HandTypes |-> -2000]
    /\ i' = 1
    /\ UNCHANGED <<difficulty, midi, returned, idCount, engineVars, appVars>>

\* Entry: the locals are created afresh and the events flattened and sorted.
GenCall ==
    /\ genPc = "idle"
    /\ Len(returned) < MaxCalls
    /\ genPc' = "loop"
    /\ notes' = <<>>
    /\ backgroundEvents' = <<>>
    /\ idCount' = 0
    /\ allEvents' = SortByTime(FlatMap(midi))
    /\ lastTimeForHand' = [h \in HandTypes |-> -2000]
    /\ i' = 1
    /\ UNCHANGED <<difficulty, midi, returned, engineVars, appVars>>

\* Mutant of GenStep: the background push is not in an else branch.
GenStepAlwaysBackground ==
    /\ genPc = "loop"
    /\ i <= Len(allEvents)
    /\ LET note == allEvents[i] IN
         /\ backgroundEvents' = Append(backgroundEvents, MakeBackground(note))
         /\ IF ShouldBeInteractive(note, difficulty, lastTimeForHand)
            THEN /\ notes' = Append(notes, MakeNote(note, idCount))
                 /\ idCount' = idCount + 1
                 /\ lastTimeForHand' =
                        [lastTimeForHand EXCEPT ![HandFor(note.midi)] = NextLastTime(note)]
            ELSE UNCHANGED <<notes, idCount, lastTimeForHand>>
    /\ i' = i + 1
    /\ UNCHANGED <<difficulty, midi, genPc, allEvents, returned, engineVars, appVars>>

\* One iteration of the for loop.
GenStep ==
    /\ genPc = "loop"
    /\ i <= Len(allEvents)
    /\ LET note == allEvents[i] IN
         IF ShouldBeInteractive(note, difficulty, lastTimeForHand)
         THEN /\ notes' = Append(notes, MakeNote(note, idCount))
              /\ idCount' = idCount + 1
              /\ lastTimeForHand' =
                     [lastTimeForHand EXCEPT ![HandFor(note.midi)] = NextLastTime(note)]
              /\ UNCHANGED backgroundEvents
         ELSE /\ backgroundEvents' = Append(backgroundEvents, MakeBackground(note))
              /\ UNCHANGED <<notes, idCount, lastTimeForHand>>
    /\ i' = i + 1
    /\ UNCHANGED <<difficulty, midi, genPc, allEvents, returned, engineVars, appVars>>

\* return { chart: notes, backgroundEvents }
GenReturn ==
    /\ genPc = "loop"
    /\ i > Len(allEvents)
    /\ returned' = Append(returned, [chart |-> notes, backgroundEvents |-> backgroundEvents])
    /\ genPc' = "idle"
    /\ UNCHANGED <<difficulty, midi, allEvents, i, notes, backgroundEvents,
                   idCount, lastTimeForHand, engineVars, appVars>>

NextGen == GenCall \/ GenStep \/ GenReturn

\* The inputs at the thresholds of the layer and length mappings: one melodic
\* track of notes at time 0, with the pitches on either side of 55 and 70
\* (left hand, right hand) and the durations 0, 0.2 s and just above.
BoundaryPitches == {54, 55, 70, 71}

BoundaryDurations == {0, 200, 201}

BoundaryNotes ==
    { [time |-> 0, midi |-> p, name |-> NoteName(p), velocity |-> v, duration |-> du] :
        p \in BoundaryPitches, v \in Velocities, du \in BoundaryDurations }

BoundaryInputs ==
    { << [percussion |-> FALSE, channel |-> 0, notes |-> a] >> :
        a \in UNION { [1..n -> BoundaryNotes] : n \in 0..MaxEvents } }

InitGenBoundary ==
    /\ difficulty \in Difficulties
    /\ midi \in BoundaryInputs
    /\ genPc = "idle"
    /\ allEvents = <<>>
    /\ i = 1
    /\ notes = <<>>
    /\ backgroundEvents = <<>>
    /\ idCount = 0
    /\ lastTimeForHand = [h \in HandTypes |-> -2000]
    /\ returned = <<>>
    /\ EngineIdle
    /\ AppIdle

SpecGenBoundary == InitGenBoundary /\ [][NextGen]_vars

SpecGen == InitGen /\ [][NextGen]_vars

-----------------------------------------------------------------------------
(* The gameplay engine: GameScene's frame callback *)

(* constants.ts is not among the sources.  PLAYER_Z and NOTE_SPEED are the    *)
(* values GameScene's comments give ("Z=PLAYER_Z (0)", "at speed 12"), the    *)
(* lane width 0.8 is the one its collision comment gives; the others are      *)
(* representative.  Positions are in thousandths of a world unit, so that a   *)
(* time difference in ms times NOTE_SPEED (units per second) is a position.   *)
PLAYER_Z == 0

SPAWN_Z == -30000

MISS_Z == 5000

NOTE_SPEED == 12

LEAD_IN_TIME == 3000

LANE_X_POSITIONS == <<-1200, -400, 400, 1200>>

LAYER_Y_POSITIONS == <<800, 1600, 2400>>

GameModes == {"STANDARD", "RIGHT_HAND_ONLY", "LEFT_HAND_ONLY"}

\* Bounds of the engine model ----------------------------------------------

\* The most notes of a game chart.
MaxChartNotes == 2

\* Frames are taken while the clock is at most this (ms).
MaxClock == 3900

\* The clock's advance between two frames (ms): a frame at the same clock
\* value, a regular frame, and a stall long enough to carry a note from
\* before the collision window to beyond the miss threshold.
FrameSteps == {0, 100, 800}

\* Where a tracked hand may be: on the anchor of its hand's outer lane (mid
\* layer) one unit in front of the player plane, or 0.65 beside that anchor
\* on the player plane (outside the hit radius, inside the hold radius).
OnAnchor(hand) ==
    [x |-> IF hand = "left" THEN LANE_X_POSITIONS[1] ELSE LANE_X_POSITIONS[4],
     y |-> LAYER_Y_POSITIONS[2],
     z |-> PLAYER_Z - 1000]

BesideAnchor(hand) ==
    [x |-> IF hand = "left" THEN LANE_X_POSITIONS[1] + 650 ELSE LANE_X_POSITIONS[4] - 650,
     y |-> LAYER_Y_POSITIONS[2],
     z |-> PLAYER_Z]

\* A tracked hand on the anchor of its hand's inner lane: 0.8 from the outer
\* lane's anchor, outside the hold radius of a note on the outer lane.
OnInnerLane(hand) ==
    [x |-> IF hand = "left" THEN LANE_X_POSITIONS[2] ELSE LANE_X_POSITIONS[3],
     y |-> LAYER_Y_POSITIONS[2],
     z |-> PLAYER_Z]

\* The contents of the hand slot a frame may find: no hand, either hand alone
\* on its anchor, both on their anchors, both beside them, both a lane away,
\* the right hand alone reaching across onto the left hand's anchor.
HandPoses ==
    { [left |-> Null,             right |-> Null],
      [left |-> OnAnchor("left"), right |-> Null],
      [left |-> Null,             right |-> OnAnchor("right")],
      [left |-> OnAnchor("left"), right |-> OnAnchor("right")],
      [left |-> BesideAnchor("left"), right |-> BesideAnchor("right")],
      [left |-> OnInnerLane("left"), right |-> OnInnerLane("right")],
      [left |-> Null,             right |-> OnAnchor("left")] }

\* The game charts: what generateChartFromMidi returns for melodic events
\* around the hand split (a single hit or a hold at 0, a single hit at 0.4 s),
\* shifted by the lead-in as startGame does.
ChartEvents ==
    { e \in { [time |-> t, midi |-> p, name |-> NoteName(p), velocity |-> 80,
               duration |-> du, instrumentType |-> "lead"] :
                 t \in {0, 400}, p \in {61, 62}, du \in {200, 300} } :
        e.time # 0 => e.duration = 200 }

\* Mutant of FreshNote: the lead-in is added twice.
FreshNoteShiftedAgain(note) == [note EXCEPT !.time = @ + 2 * LEAD_IN_TIME]

\* startGame: freshChart = chartData.map(note => ({...note, time: note.time + LEAD_IN_TIME}))
FreshNote(note) == [note EXCEPT !.time = @ + LEAD_IN_TIME]

\* A chart the generator can return (on Hard, the most permissive gate): in
\* time order, and on each hand no note before the previous note's time +
\* half its length + the minimum gap.
GameCharts ==
    UNION { { c \in [1..n -> ChartEvents] :
                \A a, b \in 1..n : a < b =>
                    /\ c[a].time <= c[b].time
                    /\ HandFor(c[a].midi) = HandFor(c[b].midi) =>
                           2 * c[b].time - NextLastTime(c[a]) >= 2 * minTimeGap("Hard") }
            : n \in 1..MaxChartNotes }

GameChart(c) == [k \in DOMAIN c |-> FreshNote(MakeNote(c[k], k - 1))]

\* setNotesState(JSON.parse(JSON.stringify(chart))): the note with its state
\* fields.  The undefined hit, isHolding and missed are only ever tested for
\* truth, so they start as FALSE; an undefined hitTime is the empty sequence
\* and a set one the sequence of its value.
NoteWithState(n) ==
    [id |-> n.id, time |-> n.time, length |-> n.length, lineIndex |-> n.lineIndex,
     lineLayer |-> n.lineLayer, type |-> n.type, cutDirection |-> n.cutDirection,
     audio |-> n.audio,
     hit |-> FALSE, isHolding |-> FALSE, missed |-> FALSE, hitTime |-> <<>>]

\* Mutant of ChartEffect: the effect has no dependency list and runs after
\* every render.
ChartEffectEveryRender(prev, new, g) ==
    IF Len(new) > 0
    THEN [notes  |-> [k \in DOMAIN new |-> NoteWithState(new[k])],
          active |-> <<>>,
          next   |-> 0]
    ELSE g

\* GameScene's chart effect, after a render that goes from chart prev to chart
\* new with g the notes, the active list and the cursor: it runs only when its
\* dependency, the chart, has changed, and resets only for a chart with notes.
ChartEffect(prev, new, g) ==
    IF new # prev /\ Len(new) > 0
    THEN [notes  |-> [k \in DOMAIN new |-> NoteWithState(new[k])],
          active |-> <<>>,
          next   |-> 0]
    ELSE g

\* The frame's note loop ----------------------------------------------------

\* activeNotesRef.current.splice(k, 1)
Splice(seq, k) == SubSeq(seq, 1, k - 1) \o SubSeq(seq, k + 1, Len(seq))

\* const currentZ = PLAYER_Z - (timeDiff * NOTE_SPEED)
CurrentZ(note, time) == PLAYER_Z - (note.time - time) * NOTE_SPEED

\* Mutant of InHoldRadius: the radius is 0.9.
InHoldRadiusWide(handPos, note) ==
    /\ handPos # Null
    /\ LET dx == Abs(handPos.x - LANE_X_POSITIONS[note.lineIndex + 1])
           dy == Abs(handPos.y - LAYER_Y_POSITIONS[note.lineLayer + 1])
       IN  dx * dx + dy * dy < 900 * 900

\* handPos && distXY < 0.7, against the note's anchor on the player plane
InHoldRadius(handPos, note) ==
    /\ handPos # Null
    /\ LET dx == Abs(handPos.x - LANE_X_POSITIONS[note.lineIndex + 1])
           dy == Abs(handPos.y - LAYER_Y_POSITIONS[note.lineLayer + 1])
       IN  dx * dx + dy * dy < 700 * 700

\* handPos && planarDist < 0.6 && dz < 1.2, against the travelling note
Collides(handPos, note, currentZ) ==
    /\ handPos # Null
    /\ LET dx == Abs(handPos.x - LANE_X_POSITIONS[note.lineIndex + 1])
           dy == Abs(handPos.y - LAYER_Y_POSITIONS[note.lineLayer + 1])
           dz == Abs(handPos.z - currentZ)
       IN  dx * dx + dy * dy < 600 * 600 /\ dz < 1200

\* The note belongs to the hand the game mode plays by itself.
AutoPlayed(mode, note) ==
    \/ mode = "RIGHT_HAND_ONLY" /\ note.type = "left"
    \/ mode = "LEFT_HAND_ONLY" /\ note.type = "right"

HandPos(h, note) == IF note.type = "left" THEN h.left ELSE h.right

\* The loop's state st: the notes, the active list and the callbacks invoked
\* so far in this frame.  k is the position in the active list.

\* Mutant of CompleteHold: isHolding is left as it was.
CompleteHoldLeavesHolding(st, k) ==
    [st EXCEPT !.active = Splice(st.active, k)]

\* Mutant of CompleteHold: the note is not spliced out of the active list.
CompleteHoldStaysActive(st, k) ==
    [st EXCEPT !.notes[st.active[k]].isHolding = FALSE]

\* The hold window has closed.
CompleteHold(st, k) ==
    [st EXCEPT !.notes[st.active[k]].isHolding = FALSE,
               !.active = Splice(st.active, k)]

\* Mutant of UpdateHold: any tracked hand holds, wherever it is.
UpdateHoldAnyTrackedHand(st, k, h) ==
    LET n == st.active[k]
        isNowHolding == HandPos(h, st.notes[n]) # Null
    IN  [st EXCEPT !.notes[n].isHolding = isNowHolding,
                   !.out = IF isNowHolding
                           THEN Append(@, [event |-> "onNoteHold", note |-> n])
                           ELSE @]

\* Mutant of UpdateHold: a hand that is not tracked leaves isHolding as it was.
UpdateHoldKeepsOnLostHand(st, k, h) ==
    LET n == st.active[k]
        isNowHolding == IF HandPos(h, st.notes[n]) = Null
                        THEN st.notes[n].isHolding
                        ELSE InHoldRadius(HandPos(h, st.notes[n]), st.notes[n])
    IN  [st EXCEPT !.notes[n].isHolding = isNowHolding,
                   !.out = IF isNowHolding
                           THEN Append(@, [event |-> "onNoteHold", note |-> n])
                           ELSE @]

\* Inside the hold window: isHolding follows the hand, onNoteHold while held.
UpdateHold(st, k, h) ==
    LET n == st.active[k]
        isNowHolding == InHoldRadius(HandPos(h, st.notes[n]), st.notes[n])
    IN  [st EXCEPT !.notes[n].isHolding = isNowHolding,
                   !.out = IF isNowHolding
                           THEN Append(@, [event |-> "onNoteHold", note |-> n])
                           ELSE @]

\* Mutant of MissNote: the note leaves the active list without being marked.
MissNoteUnmarked(st, k) ==
    LET n == st.active[k]
    IN  [st EXCEPT !.out = Append(@, [event |-> "onNoteMiss", note |-> n]),
                   !.active = Splice(st.active, k)]

\* The head passed the miss threshold.
MissNote(st, k) ==
    LET n == st.active[k]
    IN  [st EXCEPT !.notes[n].missed = TRUE,
                   !.out = Append(@, [event |-> "onNoteMiss", note |-> n]),
                   !.active = Splice(st.active, k)]

\* Mutant of HitNote: a single hit stays in the active list.
HitNoteStaysActive(st, k, time) ==
    LET n == st.active[k]
    IN  [st EXCEPT !.notes[n].hit = TRUE,
                   !.notes[n].hitTime = <<time>>,
                   !.out = Append(@, [event |-> "onNoteHit", note |-> n]),
                   !.notes[n].isHolding = IF st.notes[n].length > 0 THEN TRUE ELSE @]

\* Mutant of HitNote: hitTime is the note's time, not the frame's.
HitNoteStampsNoteTime(st, k, time) ==
    LET n == st.active[k]
    IN  [st EXCEPT !.notes[n].hit = TRUE,
                   !.notes[n].hitTime = <<st.notes[n].time>>,
                   !.out = Append(@, [event |-> "onNoteHit", note |-> n]),
                   !.notes[n].isHolding = IF st.notes[n].length > 0 THEN TRUE ELSE @,
                   !.active = IF st.notes[n].length > 0 THEN @ ELSE Splice(@, k)]

\* A hit, by auto-play or by collision: a hold starts holding and stays
\* active, a single hit leaves the active list.
HitNote(st, k, time) ==
    LET n == st.active[k]
    IN  [st EXCEPT !.notes[n].hit = TRUE,
                   !.notes[n].hitTime = <<time>>,
                   !.out = Append(@, [event |-> "onNoteHit", note |-> n]),
                   !.notes[n].isHolding = IF st.notes[n].length > 0 THEN TRUE ELSE @,
                   !.active = IF st.notes[n].length > 0 THEN @ ELSE Splice(@, k)]

\* Mutant of UpdateNote: the hold window closes only after time + length.
UpdateNoteClosesLate(st, k, time, h, mode) ==
    LET note == st.notes[st.active[k]]
        currentZ == CurrentZ(note, time)
    IN  IF note.missed THEN st
        ELSE IF note.hit /\ note.length > 0
        THEN IF time > note.time + note.length
             THEN CompleteHold(st, k)
             ELSE UpdateHold(st, k, h)
        ELSE IF currentZ > MISS_Z
        THEN MissNote(st, k)
        ELSE IF AutoPlayed(mode, note) /\ ~note.hit /\ currentZ >= PLAYER_Z - 100
        THEN HitNote(st, k, time)
        ELSE IF /\ ~note.hit
                /\ currentZ > PLAYER_Z - 2500
                /\ currentZ < PLAYER_Z + 1500
                /\ Collides(HandPos(h, note), note, currentZ)
        THEN HitNote(st, k, time)
        ELSE st

\* Mutant of UpdateNote: auto-play is tried before the miss check.
UpdateNoteAutoPlayFirst(st, k, time, h, mode) ==
    LET note == st.notes[st.active[k]]
        currentZ == CurrentZ(note, time)
    IN  IF note.missed THEN st
        ELSE IF note.hit /\ note.length > 0
        THEN IF time >= note.time + note.length
             THEN CompleteHold(st, k)
             ELSE UpdateHold(st, k, h)
        ELSE IF AutoPlayed(mode, note) /\ ~note.hit /\ currentZ >= PLAYER_Z - 100
        THEN HitNote(st, k, time)
        ELSE IF currentZ > MISS_Z
        THEN MissNote(st, k)
        ELSE IF /\ ~note.hit
                /\ currentZ > PLAYER_Z - 2500
                /\ currentZ < PLAYER_Z + 1500
                /\ Collides(HandPos(h, note), note, currentZ)
        THEN HitNote(st, k, time)
        ELSE st

\* Mutant of UpdateNote: auto-play waits for the hand to be tracked.
UpdateNoteAutoPlayNeedsHand(st, k, time, h, mode) ==
    LET note == st.notes[st.active[k]]
        currentZ == CurrentZ(note, time)
    IN  IF note.missed THEN st
        ELSE IF note.hit /\ note.length > 0
        THEN IF time >= note.time + note.length
             THEN CompleteHold(st, k)
             ELSE UpdateHold(st, k, h)
        ELSE IF currentZ > MISS_Z
        THEN MissNote(st, k)
        ELSE IF /\ AutoPlayed(mode, note)
                /\ HandPos(h, note) # Null
                /\ ~note.hit
                /\ currentZ >= PLAYER_Z - 100
        THEN HitNote(st, k, time)
        ELSE IF /\ ~note.hit
                /\ currentZ > PLAYER_Z - 2500
                /\ currentZ < PLAYER_Z + 1500
                /\ Collides(HandPos(h, note), note, currentZ)
        THEN HitNote(st, k, time)
        ELSE st

\* Mutant of UpdateNote: the collision test reads whichever hand is tracked.
UpdateNoteEitherHand(st, k, time, h, mode) ==
    LET note == st.notes[st.active[k]]
        currentZ == CurrentZ(note, time)
    IN  IF note.missed THEN st
        ELSE IF note.hit /\ note.length > 0
        THEN IF time >= note.time + note.length
             THEN CompleteHold(st, k)
             ELSE UpdateHold(st, k, h)
        ELSE IF currentZ > MISS_Z
        THEN MissNote(st, k)
        ELSE IF AutoPlayed(mode, note) /\ ~note.hit /\ currentZ >= PLAYER_Z - 100
        THEN HitNote(st, k, time)
        ELSE IF /\ ~note.hit
                /\ currentZ > PLAYER_Z - 2500
                /\ currentZ < PLAYER_Z + 1500
                /\ \/ Collides(h.left, note, currentZ)
                   \/ Collides(h.right, note, currentZ)
        THEN HitNote(st, k, time)
        ELSE st

\* The loop body for the active note at position k.
UpdateNote(st, k, time, h, mode) ==
    LET note == st.notes[st.active[k]]
        currentZ == CurrentZ(note, time)
    IN  IF note.missed THEN st
        ELSE IF note.hit /\ note.length > 0
        THEN IF time >= note.time + note.length
             THEN CompleteHold(st, k)
             ELSE UpdateHold(st, k, h)
        ELSE IF currentZ > MISS_Z
        THEN MissNote(st, k)
        ELSE IF AutoPlayed(mode, note) /\ ~note.hit /\ currentZ >= PLAYER_Z - 100
        THEN HitNote(st, k, time)
        ELSE IF /\ ~note.hit
                /\ currentZ > PLAYER_Z - 2500
                /\ currentZ < PLAYER_Z + 1500
                /\ Collides(HandPos(h, note), note, currentZ)
        THEN HitNote(st, k, time)
        ELSE st

\* for (let i = activeNotesRef.current.length - 1; i >= 0; i--)
RECURSIVE UpdateNotes(_, _, _, _, _)
UpdateNotes(st, k, time, h, mode) ==
    IF k = 0 THEN st
    ELSE UpdateNotes(UpdateNote(st, k, time, h, mode), k - 1, time, h, mode)

\* Mutant of SpawnCursor: an if in place of the while, one note per frame.
SpawnCursorOneNote(ns, next, time) ==
    IF /\ next < Len(ns)
       /\ (ns[next + 1].time - time) * NOTE_SPEED <= Abs(SPAWN_Z - PLAYER_Z)
    THEN next + 1
    ELSE next

\* The spawn loop: the cursor after it.
RECURSIVE SpawnCursor(_, _, _)
SpawnCursor(ns, next, time) ==
    IF /\ next < Len(ns)
       /\ (ns[next + 1].time - time) * NOTE_SPEED <= Abs(SPAWN_Z - PLAYER_Z)
    THEN SpawnCursor(ns, next + 1, time)
    ELSE next

Calls(out, ev, n) == Cardinality({j \in DOMAIN out : out[j] = [event |-> ev, note |-> n]})

\* The actions ---------------------------------------------------------------

\* A game has just started: startGame set the chart and PLAYING and started
\* the transport at 0; GameScene's chart effect copied the chart and cleared
\* the active list and the cursor.
Init ==
    /\ difficulty = "Medium"
    /\ midi = <<>>
    /\ genPc = "idle"
    /\ allEvents = <<>>
    /\ i = 1
    /\ notes = <<>>
    /\ backgroundEvents = <<>>
    /\ idCount = 0
    /\ lastTimeForHand = [h \in HandTypes |-> -2000]
    /\ returned = <<>>
    /\ gameStatus = "PLAYING"
    /\ gameMode \in GameModes
    /\ \E c \in GameCharts : chart = GameChart(c)
    /\ notesState = [k \in DOMAIN chart |-> NoteWithState(chart[k])]
    /\ activeNotesRef = <<>>
    /\ nextNoteIndexRef = 0
    /\ clock = 0
    /\ hands = [left |-> Null, right |-> Null]
    /\ emitted = <<>>
    /\ hitCalls = [k \in DOMAIN chart |-> 0]
    /\ missCalls = [k \in DOMAIN chart |-> 0]
    /\ transport = "started"
    /\ pendingStatus = <<>>
    /\ pausedAt = <<>>
    /\ AppIdle

\* The notes the spawn loop pushes when it moves the cursor to next.
Spawned(next) == [k \in 1..(next - nextNoteIndexRef) |-> nextNoteIndexRef + k]

\* Mutant of FrameResult: the spawn loop does not advance the cursor it leaves
\* behind, so the next frame spawns the same notes again.
FrameResultCursorStuck(time, h) ==
    LET next == SpawnCursor(notesState, nextNoteIndexRef, time)
    IN  UpdateNotes([notes  |-> notesState,
                     active |-> activeNotesRef \o Spawned(next),
                     out    |-> <<>>,
                     next   |-> nextNoteIndexRef],
                    Len(activeNotesRef) + next - nextNoteIndexRef, time, h, gameMode)

\* What a frame at clock value time, with h in the hand slot, leaves behind:
\* the spawn loop, then the note loop from the end of the active list.  The
\* loop's state carries the cursor the spawn loop left.
FrameResult(time, h) ==
    LET next == SpawnCursor(notesState, nextNoteIndexRef, time)
    IN  UpdateNotes([notes  |-> notesState,
                     active |-> activeNotesRef \o Spawned(next),
                     out    |-> <<>>,
                     next   |-> next],
                    Len(activeNotesRef) + next - nextNoteIndexRef, time, h, gameMode)

\* A frame while PLAYING, dt (one of steps) after the previous one, with h
\* (one of poses) in the hand slot.  The clock advances only while the
\* transport is started.
FrameUpTo(steps, poses, maxClock) ==
    /\ gameStatus = "PLAYING"
    /\ \E dt \in steps, h \in poses :
        /\ clock + dt <= maxClock
        /\ transport # "started" => dt = 0
        /\ clock' = clock + dt
        /\ hands' = h
        /\ \E st \in { FrameResult(clock + dt, h) } :
               /\ nextNoteIndexRef' = st.next
               /\ notesState' = st.notes
               /\ activeNotesRef' = st.active
               /\ emitted' = st.out
               /\ hitCalls' = [n \in DOMAIN hitCalls |->
                                  hitCalls[n] + Calls(st.out, "onNoteHit", n)]
               /\ missCalls' = [n \in DOMAIN missCalls |->
                                   missCalls[n] + Calls(st.out, "onNoteMiss", n)]
    /\ pausedAt' = <<>>
    /\ UNCHANGED <<gameStatus, gameMode, chart, genVars, transport, pendingStatus>>

\* The frames of the specifications that stop at MaxClock.
FrameIn(steps, poses) == FrameUpTo(steps, poses, MaxClock)

Frame == FrameIn(FrameSteps, HandPoses) /\ UNCHANGED appVars

Next == Frame

Spec == Init /\ [][Next]_vars

\* The game with a hand pose stream that never reports the right hand, on a
\* clock that keeps advancing: the frame loop runs on every animation frame
\* and the transport runs while the game is PLAYING, so a frame at a later
\* clock value always comes.
RightAbsentPoses == { h \in HandPoses : h.right = Null }

FrameRightAbsent == FrameIn(FrameSteps, RightAbsentPoses) /\ UNCHANGED appVars

FrameRightAbsentAdvancing ==
    FrameIn(FrameSteps \ {0}, RightAbsentPoses) /\ UNCHANGED appVars

NextRightAbsent == FrameRightAbsent

SpecRightAbsent ==
    Init /\ [][NextRightAbsent]_vars /\ WF_vars(FrameRightAbsentAdvancing)

\* The game with its status changes --------------------------------------------

\* The hand slot contents of the frames of this specification.
GamePoses ==
    { [left |-> Null,             right |-> Null],
      [left |-> OnAnchor("left"), right |-> OnAnchor("right")],
      [left |-> OnInnerLane("left"), right |-> OnInnerLane("right")] }

FrameGame == FrameIn(FrameSteps, GamePoses) /\ UNCHANGED appVars

\* Mutant of FrameNotPlaying: the frame runs whatever the status.
FrameNotPlayingRuns ==
    /\ gameStatus = "PAUSED"
    /\ \E h \in GamePoses :
        \E st \in { FrameResult(clock, h) } :
               /\ hands' = h
               /\ nextNoteIndexRef' = st.next
               /\ notesState' = st.notes
               /\ activeNotesRef' = st.active
               /\ emitted' = st.out
               /\ hitCalls' = [n \in DOMAIN hitCalls |->
                                  hitCalls[n] + Calls(st.out, "onNoteHit", n)]
               /\ missCalls' = [n \in DOMAIN missCalls |->
                                   missCalls[n] + Calls(st.out, "onNoteMiss", n)]
    /\ UNCHANGED <<gameStatus, gameMode, chart, clock, transport, pendingStatus,
                   pausedAt, genVars, appVars>>

\* A frame while GameScene is mounted and the status is not PLAYING:
\* if (!isPlaying) return, before the clock and the hands are read.
FrameNotPlaying ==
    /\ gameStatus = "PAUSED"
    /\ emitted' = <<>>
    /\ UNCHANGED <<gameStatus, gameMode, chart, notesState, activeNotesRef,
                   nextNoteIndexRef, clock, hands, hitCalls, missCalls,
                   transport, pendingStatus, pausedAt, genVars, appVars>>

\* endGame(victory), from the song-end event scheduled on the transport
\* (victory) or from the timeout handleNoteMiss sets when health runs out
\* (no victory, after a miss): setGameStatus is queued for the next render,
\* Tone.Transport.stop() takes effect at once and resets the position to 0.
EndGame ==
    /\ gameStatus = "PLAYING"
    /\ pendingStatus = <<>>
    /\ transport = "started"
    /\ \E victory \in BOOLEAN :
        /\ ~victory => \E n \in DOMAIN missCalls : missCalls[n] > 0
        /\ pendingStatus' = << IF victory THEN "VICTORY" ELSE "GAME_OVER" >>
    /\ transport' = "stopped"
    /\ clock' = 0
    /\ pausedAt' = <<>>
    /\ UNCHANGED <<gameStatus, gameMode, chart, notesState, activeNotesRef,
                   nextNoteIndexRef, hands, emitted, hitCalls, missCalls, genVars, appVars>>

\* The render that follows setGameStatus: GameScene is rendered only while
\* PLAYING, so it is unmounted and no frame of it runs any more (its last
\* notes are kept here as the record of the game); then the cleanup effect
\* stops a transport that is still started.
CommitStatus ==
    /\ pendingStatus # <<>>
    /\ gameStatus' = pendingStatus[1]
    /\ pendingStatus' = <<>>
    /\ emitted' = <<>>
    /\ IF pendingStatus[1] # "PLAYING" /\ transport = "started"
       THEN transport' = "stopped" /\ clock' = 0
       ELSE UNCHANGED <<transport, clock>>
    /\ UNCHANGED <<gameMode, chart, notesState, activeNotesRef, nextNoteIndexRef,
                   hands, hitCalls, missCalls, pausedAt, genVars, appVars>>

\* GameScene's notes, active list and cursor.
SceneState == [notes |-> notesState, active |-> activeNotesRef, next |-> nextNoteIndexRef]

\* Pause: the status becomes PAUSED and the clock stops advancing at its
\* present value, in one step; GameScene stays mounted (its frame callback
\* and StarTunnel test for PAUSED) and renders with the chart it had.
Pause ==
    /\ gameStatus = "PLAYING"
    /\ pendingStatus = <<>>
    /\ transport = "started"
    /\ gameStatus' = "PAUSED"
    /\ transport' = "paused"
    /\ pausedAt' = <<clock>>
    /\ \E g \in { ChartEffect(chart, chart, SceneState) } :
        /\ notesState' = g.notes
        /\ activeNotesRef' = g.active
        /\ nextNoteIndexRef' = g.next
    /\ UNCHANGED <<gameMode, chart, clock, hands, emitted, hitCalls, missCalls,
                   pendingStatus, genVars, appVars>>

\* Resume: the status becomes PLAYING again and the clock goes on from the
\* value it was paused at; GameScene renders with the chart it had.
Resume ==
    /\ gameStatus = "PAUSED"
    /\ gameStatus' = "PLAYING"
    /\ transport' = "started"
    /\ \E g \in { ChartEffect(chart, chart, SceneState) } :
        /\ notesState' = g.notes
        /\ activeNotesRef' = g.active
        /\ nextNoteIndexRef' = g.next
    /\ UNCHANGED <<gameMode, chart, clock, hands, emitted, hitCalls, missCalls,
                   pendingStatus, pausedAt, genVars, appVars>>

NextGame == FrameGame \/ FrameNotPlaying \/ EndGame \/ CommitStatus \/ Pause \/ Resume

SpecGame == Init /\ [][NextGame]_vars

-----------------------------------------------------------------------------
(* Properties of generateChartFromMidi, checked under SpecGen *)

\* What a chart note, a background event and an input event have in common.
NoteKey(n) ==
    [time |-> n.time, instrument |-> n.audio.instrument, name |-> n.audio.name,
     duration |-> n.audio.duration, velocity |-> n.audio.velocity]

BackgroundKey(b) ==
    [time |-> b.time, instrument |-> b.instrument, name |-> b.name,
     duration |-> b.duration, velocity |-> b.velocity]

EventKey(e) ==
    [time |-> e.time, instrument |-> e.instrumentType, name |-> e.name,
     duration |-> e.duration, velocity |-> e.velocity]

Occurrences(keys, k) == Cardinality({j \in DOMAIN keys : keys[j] = k})

InputKeys == LET ev == FlatMap(midi) IN [j \in DOMAIN ev |-> EventKey(ev[j])]

ChartKeys(r) == [j \in DOMAIN r.chart |-> NoteKey(r.chart[j])]

BackgroundKeys(r) == [j \in DOMAIN r.backgroundEvents |-> BackgroundKey(r.backgroundEvents[j])]

Range(f) == {f[x] : x \in DOMAIN f}

\* C1: every flattened input event lands in exactly one of chart and
\* backgroundEvents: the two lists together hold each input event as often as
\* the input does, so their lengths add up to the number of input events.
C1_CoveragePartition ==
    \A c \in DOMAIN returned :
        LET r == returned[c] IN
        /\ Len(r.chart) + Len(r.backgroundEvents) = SumLen(midi)
        /\ \A k \in Range(InputKeys) \cup Range(ChartKeys(r)) \cup Range(BackgroundKeys(r)) :
               Occurrences(InputKeys, k)
                   = Occurrences(ChartKeys(r), k) + Occurrences(BackgroundKeys(r), k)

\* A call returned with one event in the chart and one in the background.
C1_Witness ==
    \E c \in DOMAIN returned :
        returned[c].chart # <<>> /\ returned[c].backgroundEvents # <<>>

\* C2: no chart note is a kick or a bass note, at any difficulty, and none is
\* a hi-hat note on Easy or Medium.
C2_RhythmAndHihatExcluded ==
    \A c \in DOMAIN returned : \A j \in DOMAIN returned[c].chart :
        LET n == returned[c].chart[j] IN
        /\ n.audio.instrument \notin {"kick", "bass"}
        /\ difficulty \in {"Easy", "Medium"} => n.audio.instrument # "hihat"

\* On Medium, an input with a kick or bass event and a hi-hat event, and a
\* chart that still holds a note.
C2_Witness ==
    /\ difficulty = "Medium"
    /\ \E c \in DOMAIN returned :
        /\ returned[c].chart # <<>>
        /\ \E b \in DOMAIN returned[c].backgroundEvents :
               returned[c].backgroundEvents[b].instrument \in {"kick", "bass", "hihat"}

\* C3: a chart note is a left-hand note exactly when its pitch is below 62.
C3_HandSplit ==
    \A c \in DOMAIN returned : \A j \in DOMAIN returned[c].chart :
        LET n == returned[c].chart[j] IN
        (n.audio.midi < 62) <=> (n.type = "left")

\* A chart with a note at pitch 61 and a note at pitch 62, the second one
\* from the drum track.
C3_Witness ==
    \E c \in DOMAIN returned : \E j, k \in DOMAIN returned[c].chart :
        /\ returned[c].chart[j].audio.midi = 61
        /\ returned[c].chart[k].audio.midi = 62
        /\ returned[c].chart[k].audio.instrument = "snare"

\* Notes a and b of a chart are consecutive among the notes of one hand.
ConsecutiveOnHand(ch, a, b) ==
    /\ a < b
    /\ ch[a].type = ch[b].type
    /\ \A m \in DOMAIN ch : (a < m /\ m < b) => ch[m].type # ch[a].type

\* C4: of two notes consecutive on one hand, the later one starts no earlier
\* than the earlier one's time + half its length + minGap(difficulty)
\* (both sides doubled to stay in integers).
C4_MinimumGap ==
    \A c \in DOMAIN returned :
        LET ch == returned[c].chart IN
        \A a, b \in DOMAIN ch :
            ConsecutiveOnHand(ch, a, b) =>
                2 * ch[b].time >= 2 * ch[a].time + ch[a].length + 2 * minTimeGap(difficulty)

\* A chart with two notes on one hand, the first of them a hold.
C4_Witness ==
    \E c \in DOMAIN returned :
        LET ch == returned[c].chart IN
        \E a, b \in DOMAIN ch : ConsecutiveOnHand(ch, a, b) /\ ch[a].length > 0

\* C5: on Easy and Medium, the loop step of an event that follows the
\* preceding event of the sorted sequence by less than 50 ms adds no chart
\* note (the event goes to backgroundEvents).
C5_ChordDeduplication ==
    [][ ( /\ genPc = "loop"
          /\ i > 1
          /\ i <= Len(allEvents)
          /\ difficulty # "Hard"
          /\ allEvents[i].time - allEvents[i - 1].time < 50 )
        => notes' = notes ]_vars

\* C6 as stated: the lanes of a hand's pair, the higher-numbered one when the
\* time hash is positive.
C6_HigherLaneOnPositiveHash ==
    \A c \in DOMAIN returned : \A j \in DOMAIN returned[c].chart :
        LET n == returned[c].chart[j] IN
        IF n.type = "left"
        THEN n.lineIndex = (IF HashPositive(n.time) THEN 1 ELSE 0)
        ELSE n.lineIndex = (IF HashPositive(n.time) THEN 3 ELSE 2)

\* C6, amended: a left-hand note has lane 0 or 1 and a right-hand note lane 2
\* or 3; a positive time hash picks the inner lane of the pair (1 for left,
\* 2 for right), any other hash the outer one (0 for left, 3 for right).
C6_InnerLaneOnPositiveHash ==
    \A c \in DOMAIN returned : \A j \in DOMAIN returned[c].chart :
        LET n == returned[c].chart[j] IN
        IF n.type = "left"
        THEN n.lineIndex = (IF HashPositive(n.time) THEN 1 ELSE 0)
        ELSE n.lineIndex = (IF HashPositive(n.time) THEN 2 ELSE 3)

\* A chart with a right-hand note of positive hash and a right-hand note of
\* non-positive hash.
C6_Witness ==
    \E c \in DOMAIN returned : \E j, k \in DOMAIN returned[c].chart :
        /\ returned[c].chart[j].type = "right"
        /\ HashPositive(returned[c].chart[j].time)
        /\ returned[c].chart[k].type = "right"
        /\ ~HashPositive(returned[c].chart[k].time)

\* C7: every call on the same input and difficulty returns what the first
\* call returned: the same chart (ids included) and the same background list.
C7_Deterministic ==
    \A c \in DOMAIN returned : returned[c] = returned[1]

\* Two calls have returned, each with a chart note and a background event.
C7_Witness ==
    /\ Len(returned) >= 2
    /\ returned[2].chart # <<>>
    /\ returned[2].backgroundEvents # <<>>

-----------------------------------------------------------------------------
(* Properties of the gameplay engine, checked under Spec *)

\* C8: no note is ever both hit and missed; no step clears a note's hit or
\* missed flag, and no step hits a note that is missed.
C8_HitMissedExclusiveAndStable ==
    /\ \A n \in DOMAIN notesState : ~(notesState[n].hit /\ notesState[n].missed)
    /\ [][ \A n \in DOMAIN notesState :
             /\ ~(notesState'[n].hit /\ notesState'[n].missed)
             /\ notesState[n].hit => notesState'[n].hit
             /\ notesState[n].missed => (notesState'[n].missed /\ ~notesState'[n].hit) ]_vars

\* One note is hit, another is missed, and a later frame has run.
C8_Witness ==
    /\ emitted = <<>>
    /\ \E n, m \in DOMAIN notesState : notesState[n].hit /\ notesState[m].missed

\* C9: for every note, onNoteHit was called at most once, onNoteMiss at most
\* once, and not both; frames at an unchanged clock value are among the steps.
C9_HitAndMissAtMostOnce ==
    \A n \in DOMAIN hitCalls :
        /\ hitCalls[n] <= 1
        /\ missCalls[n] <= 1
        /\ hitCalls[n] + missCalls[n] <= 1

\* A note was missed by a frame at the present clock value (100 ms earlier it
\* was not yet beyond the miss threshold) and another frame has run since, at
\* the same clock value, without calling anything.
C9_Witness ==
    /\ emitted = <<>>
    /\ \E n \in DOMAIN missCalls :
        /\ missCalls[n] = 1
        /\ notesState[n].missed
        /\ CurrentZ(notesState[n], clock - 100) <= MISS_Z

RightNotes == { n \in DOMAIN notesState : notesState[n].type = "right" }

\* C11 as stated: with the right hand never reported and the clock advancing,
\* in any game mode, no right-hand note is ever hit, a right-hand note whose
\* travel position at the last frame's clock is beyond the miss threshold is
\* missed, and every right-hand note is eventually missed.
C11_RightNotesMissedAnyMode ==
    /\ [](\A n \in RightNotes :
             /\ ~notesState[n].hit
             /\ CurrentZ(notesState[n], clock) > MISS_Z => notesState[n].missed)
    /\ <>(\A n \in RightNotes : notesState[n].missed)

\* C11, amended: the same in the modes that do not auto-play the right hand
\* (STANDARD and RIGHT_HAND_ONLY).
C11_RightNotesMissedUnlessAutoPlayed ==
    /\ [](gameMode # "LEFT_HAND_ONLY" =>
             \A n \in RightNotes :
                 /\ ~notesState[n].hit
                 /\ CurrentZ(notesState[n], clock) > MISS_Z => notesState[n].missed)
    /\ <>(gameMode # "LEFT_HAND_ONLY" =>
             \A n \in RightNotes : notesState[n].missed)

\* In STANDARD mode a right-hand note was missed while the tracked left hand
\* hit a left-hand note.
C11_Witness ==
    /\ gameMode = "STANDARD"
    /\ hands.right = Null
    /\ \E n \in RightNotes : notesState[n].missed /\ missCalls[n] = 1
    /\ \E m \in DOMAIN notesState : notesState[m].type = "left" /\ notesState[m].hit

\* The hit long notes whose hold window is open at the last frame's clock.
OpenHolds ==
    { n \in DOMAIN notesState :
        /\ notesState[n].hit
        /\ notesState[n].length > 0
        /\ clock < notesState[n].time + notesState[n].length }

\* The last frame's calls of a callback for note n.
Emitted(ev, n) == Calls(emitted, ev, n)

\* The note's hand, as the last frame found it, is within the hold radius.
HandInHoldRadius(n) == InHoldRadius(HandPos(hands, notesState[n]), notesState[n])

\* C12 as stated: after every frame before time + length, a hit long note's
\* isHolding equals whether its hand is within the hold radius, and that
\* frame called onNoteHold exactly then; the frame of the hit included.
C12_HoldingFollowsHandFromHit ==
    \A n \in OpenHolds :
        /\ notesState[n].isHolding = HandInHoldRadius(n)
        /\ Emitted("onNoteHold", n) = (IF HandInHoldRadius(n) THEN 1 ELSE 0)

\* C12, amended: the same for every frame after the one that hit the note;
\* the frame of the hit itself leaves isHolding true whatever the hand, and
\* calls no onNoteHold.
C12_HoldingFollowsHandAfterHit ==
    \A n \in OpenHolds :
        IF Emitted("onNoteHit", n) > 0
        THEN /\ notesState[n].isHolding
             /\ Emitted("onNoteHold", n) = 0
        ELSE /\ notesState[n].isHolding = HandInHoldRadius(n)
             /\ Emitted("onNoteHold", n) = (IF HandInHoldRadius(n) THEN 1 ELSE 0)

\* A hit long note, in a later frame inside its hold window, with its hand
\* tracked a lane away: not holding.
C12_Witness ==
    \E n \in OpenHolds :
        /\ Emitted("onNoteHit", n) = 0
        /\ HandPos(hands, notesState[n]) # Null
        /\ ~HandInHoldRadius(n)
        /\ ~notesState[n].isHolding

\* The notes in the active list.
ActiveNotes == { activeNotesRef[j] : j \in DOMAIN activeNotesRef }

\* C13: a frame that finds a long note already hit, at a clock value at or
\* beyond time + length, leaves the note out of the active list with isHolding
\* false, and calls no callback for it; this is so of the first such frame
\* and of every later one, whatever the hand and whatever isHolding was.
C13_HoldCompleteIsFinal ==
    [][ \A n \in DOMAIN notesState :
          ( /\ notesState[n].hit
            /\ notesState[n].length > 0
            /\ clock' >= notesState[n].time + notesState[n].length )
          => /\ \A j \in DOMAIN activeNotesRef' : activeNotesRef'[j] # n
             /\ ~notesState'[n].isHolding
             /\ \A j \in DOMAIN emitted' : emitted'[j].note # n ]_vars

\* A hold completed by a frame at exactly time + length, with the hand still
\* inside the hold radius.
C13_Witness ==
    \E n \in DOMAIN notesState :
        /\ notesState[n].hit
        /\ notesState[n].length > 0
        /\ clock = notesState[n].time + notesState[n].length
        /\ HandInHoldRadius(n)
        /\ ~notesState[n].isHolding
        /\ n \notin ActiveNotes

\* C14 as stated: a frame that finds no position for a note's hand does not
\* hit that note and leaves its isHolding false.
C14_NullHandNeverHits ==
    [][ \A n \in DOMAIN notesState :
          HandPos(hands', notesState[n]) = Null
          => /\ notesState'[n].hit = notesState[n].hit
             /\ ~notesState'[n].isHolding ]_vars

\* C14, amended: the same, except where the note belongs to the hand the game
\* mode plays by itself and the frame finds it, not yet hit, at the player
\* plane (currentZ >= PLAYER_Z - 0.1): auto-play then hits it without a hand.
\* The frame evaluates with the hand null (no error).
C14_NullHandHitsOnlyByAutoPlay ==
    [][ \A n \in DOMAIN notesState :
          HandPos(hands', notesState[n]) = Null
          => \/ /\ notesState'[n].hit = notesState[n].hit
                /\ ~notesState'[n].isHolding
             \/ /\ AutoPlayed(gameMode, notesState[n])
                /\ ~notesState[n].hit
                /\ notesState'[n].hit
                /\ CurrentZ(notesState[n], clock') >= PLAYER_Z - 100
                /\ Calls(emitted', "onNoteHit", n) = 1 ]_vars

\* A long note that is not auto-played, hit earlier and inside its hold
\* window, after a frame that found its hand untracked: not holding.
C14_Witness ==
    \E n \in OpenHolds :
        /\ ~AutoPlayed(gameMode, notesState[n])
        /\ Emitted("onNoteHit", n) = 0
        /\ HandPos(hands, notesState[n]) = Null
        /\ ~notesState[n].isHolding
        /\ n \in ActiveNotes

\* C15: the spawn cursor never moves back; the active list holds notes in
\* chart order, none twice, all of them before the cursor; and a note that a
\* frame adds to the active list is one the cursor passed in that frame, so
\* no note enters the active list a second time.
C15_SpawnInOrderOnce ==
    /\ [](\A j, k \in DOMAIN activeNotesRef :
             j < k => activeNotesRef[j] < activeNotesRef[k])
    /\ [](\A j \in DOMAIN activeNotesRef : activeNotesRef[j] <= nextNoteIndexRef)
    /\ [][ /\ nextNoteIndexRef' >= nextNoteIndexRef
           /\ \A j \in DOMAIN activeNotesRef' :
                \/ \E k \in DOMAIN activeNotesRef : activeNotesRef[k] = activeNotesRef'[j]
                \/ /\ activeNotesRef'[j] > nextNoteIndexRef
                   /\ activeNotesRef'[j] <= nextNoteIndexRef' ]_vars

\* Two notes of different times are active, the second one spawned by a frame
\* at exactly its spawn time (its time less the travel time from SPAWN_Z).
C15_Witness ==
    /\ nextNoteIndexRef = 2
    /\ activeNotesRef = <<1, 2>>
    /\ notesState[1].time < notesState[2].time
    /\ (notesState[2].time - clock) * NOTE_SPEED = Abs(SPAWN_Z - PLAYER_Z)

\* C16: a frame that finds a note neither hit nor missed with its travel
\* position beyond the miss threshold (such a note is active, or is spawned
\* by that frame) marks it missed, takes it out of the active list and calls
\* onNoteMiss once; it does not hit it, whatever the hands and the game mode.
C16_MissCheckFirst ==
    [][ \A n \in DOMAIN notesState :
          ( /\ ~notesState[n].hit
            /\ ~notesState[n].missed
            /\ CurrentZ(notesState[n], clock') > MISS_Z )
          => /\ notesState'[n].missed
             /\ ~notesState'[n].hit
             /\ \A j \in DOMAIN activeNotesRef' : activeNotesRef'[j] # n
             /\ Calls(emitted', "onNoteMiss", n) = 1
             /\ Calls(emitted', "onNoteHit", n) = 0 ]_vars

\* The last frame missed a note of the hand the game mode plays by itself:
\* the auto-play condition held, and the miss check came first.
C16_Witness ==
    \E n \in DOMAIN notesState :
        /\ AutoPlayed(gameMode, notesState[n])
        /\ notesState[n].missed
        /\ ~notesState[n].hit
        /\ Emitted("onNoteMiss", n) = 1
        /\ n \notin ActiveNotes

\* The notes of the hand the game mode plays by itself.
AutoPlayedNotes == { n \in DOMAIN notesState : AutoPlayed(gameMode, notesState[n]) }

\* C17 as stated: in a single-hand mode, a frame that finds a pending note of
\* the disabled hand at or beyond the player plane (less the 0.1 tolerance)
\* hits it, and a note of the disabled hand is never hit before that point,
\* that is, never by a collision.
C17_OnlyAutoPlayResolves ==
    [][ \A n \in AutoPlayedNotes :
          (~notesState[n].hit /\ ~notesState[n].missed)
          => /\ CurrentZ(notesState[n], clock') >= PLAYER_Z - 100 => notesState'[n].hit
             /\ notesState'[n].hit => CurrentZ(notesState[n], clock') >= PLAYER_Z - 100 ]_vars

\* C17, amended: a frame that finds a pending note of the disabled hand at or
\* beyond the player plane (less the 0.1 tolerance) and not beyond the miss
\* threshold hits it, whatever the hands; beyond the miss threshold the note
\* is missed instead; and before the player plane it is hit only by a
\* collision with the tracked position of the disabled hand.
C17_AutoPlayAtPlayerPlane ==
    [][ \A n \in AutoPlayedNotes :
          (~notesState[n].hit /\ ~notesState[n].missed)
          => LET z == CurrentZ(notesState[n], clock') IN
             /\ (z >= PLAYER_Z - 100 /\ z <= MISS_Z)
                    => /\ notesState'[n].hit
                       /\ notesState'[n].hitTime = <<clock'>>
                       /\ Calls(emitted', "onNoteHit", n) = 1
             /\ z > MISS_Z => (notesState'[n].missed /\ ~notesState'[n].hit)
             /\ (z < PLAYER_Z - 100 /\ notesState'[n].hit)
                    => /\ z > PLAYER_Z - 2500
                       /\ Collides(HandPos(hands', notesState[n]), notesState[n], z) ]_vars

\* The last frame auto-played a note at the player plane while the note's
\* hand was not tracked.
C17_Witness ==
    \E n \in AutoPlayedNotes :
        /\ notesState[n].hit
        /\ notesState[n].hitTime = <<clock>>
        /\ Emitted("onNoteHit", n) = 1
        /\ HandPos(hands, notesState[n]) = Null
        /\ clock = notesState[n].time

\* The position, if any, of the hand that is not the note's.
OtherHandPos(h, note) == IF note.type = "left" THEN h.right ELSE h.left

\* C18: in STANDARD mode a frame hits a note only with the note inside the
\* window PLAYER_Z - 2.5 < currentZ < PLAYER_Z + 1.5 and the note's own hand
\* tracked at planar distance < 0.6 from the note's anchor and depth distance
\* < 1.2 from its travel position; where the other hand is does not count.
C18_StandardHitNeedsOwnHand ==
    [][ gameMode = "STANDARD" =>
          \A n \in DOMAIN notesState :
              (~notesState[n].hit /\ notesState'[n].hit)
              => LET note == notesState[n]
                     z == CurrentZ(note, clock')
                     own == HandPos(hands', note)
                 IN  /\ z > PLAYER_Z - 2500
                     /\ z < PLAYER_Z + 1500
                     /\ own # Null
                     /\ (own.x - LANE_X_POSITIONS[note.lineIndex + 1]) ^ 2
                          + (own.y - LAYER_Y_POSITIONS[note.lineLayer + 1]) ^ 2 < 600 ^ 2
                     /\ Abs(own.z - z) < 1200 ]_vars

\* In STANDARD mode, a frame found the right hand alone on a left-hand note's
\* anchor, the note inside the collision window, and the note is not hit.
C18_Witness ==
    /\ gameMode = "STANDARD"
    /\ \E n \in DOMAIN notesState :
        /\ notesState[n].type = "left"
        /\ ~notesState[n].hit
        /\ ~notesState[n].missed
        /\ n \in ActiveNotes
        /\ hands.left = Null
        /\ Collides(OtherHandPos(hands, notesState[n]), notesState[n],
                    CurrentZ(notesState[n], clock))
        /\ CurrentZ(notesState[n], clock) > PLAYER_Z - 2500
        /\ CurrentZ(notesState[n], clock) < PLAYER_Z + 1500

-----------------------------------------------------------------------------
(* Properties of the game with its status changes, checked under SpecGame *)

\* The hit, missed and isHolding flags of the notes.
NoteFlags(ns) ==
    [n \in DOMAIN ns |-> <<ns[n].hit, ns[n].missed, ns[n].isHolding>>]

\* C19: while the status is not PLAYING no step spawns a note, changes a
\* note's hit, missed or isHolding, or calls onNoteHit, onNoteMiss or
\* onNoteHold; whenever the status is not PLAYING the transport is not
\* started; and once the transport is not started no step spawns, hits or
\* misses a note.
C19_NothingFiresWhenNotPlaying ==
    /\ [][ gameStatus # "PLAYING" =>
             /\ nextNoteIndexRef' = nextNoteIndexRef
             /\ activeNotesRef' = activeNotesRef
             /\ NoteFlags(notesState') = NoteFlags(notesState)
             /\ hitCalls' = hitCalls
             /\ missCalls' = missCalls
             /\ (emitted' = <<>> \/ emitted' = emitted) ]_vars
    /\ [](gameStatus # "PLAYING" => transport # "started")
    /\ [][ transport # "started" =>
             /\ nextNoteIndexRef' = nextNoteIndexRef
             /\ hitCalls' = hitCalls
             /\ missCalls' = missCalls
             /\ \A n \in DOMAIN notesState :
                    /\ notesState'[n].hit = notesState[n].hit
                    /\ notesState'[n].missed = notesState[n].missed ]_vars

\* The game is paused with a long note held, its hand inside the hold
\* radius, and the frame that ran since the pause called nothing.
C19_Witness ==
    /\ gameStatus = "PAUSED"
    /\ emitted = <<>>
    /\ \E n \in OpenHolds :
        /\ notesState[n].isHolding
        /\ HandInHoldRadius(n)
        /\ n \in ActiveNotes

\* The notes that are over: missed, or hit and out of the active list (a
\* single hit, or a hold whose window has closed).
ResolvedNotes ==
    { n \in DOMAIN notesState :
        \/ notesState[n].missed
        \/ notesState[n].hit /\ n \notin ActiveNotes }

-----------------------------------------------------------------------------
(* A tick with its two frame callbacks: GameScene's, then Note's *)

\* Note's frame callback: zPos = PLAYER_Z - (data.time - currentTime) * NOTE_SPEED
ZPos(data, currentTime) == PLAYER_Z - (data.time - currentTime) * NOTE_SPEED

\* The notes whose Note component moves its group in its frame callback:
\* spawned, shown in this game mode, not missed, and not hit or long.
MovingNotes ==
    { n \in 1..nextNoteIndexRef :
        /\ ~AutoPlayed(gameMode, notesState[n])
        /\ ~notesState[n].missed
        /\ ~notesState[n].hit \/ notesState[n].length > 0 }

\* By how much Tone.Transport.seconds may have advanced between GameScene's
\* read and Note's read in the same tick (ms): the transport follows the
\* audio clock, which does not wait for the tick to end.
ReadGaps == {0, 3}

\* GameScene's frame callback opens the tick.
FrameRender ==
    /\ FrameIn(FrameSteps, GamePoses)
    /\ noteTime' = <<>>
    /\ UNCHANGED <<replayVars, scoreVars, sceneVars, uiVars>>

\* Note's frame callback, later in the same tick: const currentTime =
\* Tone.Transport.seconds, its own read of the transport.
NoteFrame ==
    /\ gameStatus = "PLAYING"
    /\ noteTime = <<>>
    /\ MovingNotes # {}
    /\ \E d \in ReadGaps : noteTime' = <<clock + d>>
    /\ UNCHANGED <<genVars, engineVars, replayVars, scoreVars, sceneVars, uiVars>>

NextRender == FrameRender \/ NoteFrame

SpecRender == Init /\ [][NextRender]_vars

\* C21 as stated: in a tick, the position Note's frame callback gives a note
\* is the position GameScene's frame callback used for it in the collision
\* tests: both come from one clock value.
C21_OneClockReadPerTick ==
    noteTime # <<>> =>
        \A n \in MovingNotes :
            ZPos(notesState[n], noteTime[1]) = CurrentZ(notesState[n], clock)

-----------------------------------------------------------------------------
(* Two games on the same chart, the second fed the first one's frames *)

\* The frames recorded of the first game.
MaxFrames == 4

\* The clock's advance between two frames of the first game (ms): a regular
\* frame and two stalls, so that the recorded frames reach the notes.
ReplaySteps == {100, 800, 1400}

\* The hand slot contents of the first game's frames.
ReplayPoses ==
    { [left |-> Null,             right |-> Null],
      [left |-> OnAnchor("left"), right |-> OnAnchor("right")] }

\* The per-note values a game leaves: hit, missed, isHolding, hitTime.
NoteValues(ns) ==
    [n \in DOMAIN ns |-> [hit |-> ns[n].hit, missed |-> ns[n].missed,
                          isHolding |-> ns[n].isHolding, hitTime |-> ns[n].hitTime]]

\* A frame of the first game, recorded.
FrameRecord ==
    /\ replay = 0
    /\ Len(trace) < MaxFrames
    /\ FrameIn(ReplaySteps, ReplayPoses)
    /\ trace' = Append(trace, [time |-> clock', hands |-> hands',
                               emitted |-> emitted', notes |-> NoteValues(notesState')])
    /\ UNCHANGED <<replay, renderVars, scoreVars, sceneVars, uiVars>>

\* Mutant of Restart: the second game's GameScene goes on with the notes the
\* first game left.
RestartKeepsNotes ==
    /\ replay = 0
    /\ trace # <<>>
    /\ replay' = 1
    /\ activeNotesRef' = <<>>
    /\ nextNoteIndexRef' = 0
    /\ clock' = 0
    /\ hands' = [left |-> Null, right |-> Null]
    /\ emitted' = <<>>
    /\ hitCalls' = [k \in DOMAIN chart |-> 0]
    /\ missCalls' = [k \in DOMAIN chart |-> 0]
    /\ UNCHANGED <<gameStatus, gameMode, chart, notesState, transport, pendingStatus,
                   pausedAt, trace, renderVars, scoreVars, sceneVars,
                   uiVars, genVars>>

\* The game is left and started again on the same song in the same mode:
\* startGame maps chartData to a fresh chart and starts the transport at 0,
\* GameScene is mounted anew (it is rendered only while PLAYING) and its
\* chart effect copies the chart and clears the active list and the cursor.
Restart ==
    /\ replay = 0
    /\ trace # <<>>
    /\ replay' = 1
    /\ notesState' = [k \in DOMAIN chart |-> NoteWithState(chart[k])]
    /\ activeNotesRef' = <<>>
    /\ nextNoteIndexRef' = 0
    /\ clock' = 0
    /\ hands' = [left |-> Null, right |-> Null]
    /\ emitted' = <<>>
    /\ hitCalls' = [k \in DOMAIN chart |-> 0]
    /\ missCalls' = [k \in DOMAIN chart |-> 0]
    /\ UNCHANGED <<gameStatus, gameMode, chart, transport, pendingStatus,
                   pausedAt, trace, renderVars, scoreVars, sceneVars,
                   uiVars, genVars>>

\* A frame of the second game: it reads the clock value and the hand slot the
\* first game's frame at the same position read.
FrameReplay ==
    /\ replay \in 1..Len(trace)
    /\ FrameIn({trace[replay].time - clock}, {trace[replay].hands})
    /\ replay' = replay + 1
    /\ UNCHANGED <<trace, renderVars, scoreVars, sceneVars, uiVars>>

NextReplay == FrameRecord \/ Restart \/ FrameReplay

SpecReplay == Init /\ [][NextReplay]_vars

\* C22: a second game on the same chart in the same mode, fed frame by frame
\* the clock values and hand poses of the first, invokes in each frame the
\* callbacks the first game's frame invoked, in the same order, and leaves
\* every note with the same hit, missed, isHolding and hitTime.
C22_SameInputsSameEvents ==
    replay > 1 =>
        /\ emitted = trace[replay - 1].emitted
        /\ NoteValues(notesState) = trace[replay - 1].notes

\* The second game has replayed all the frames of a first game in which a
\* note was hit, a callback was invoked in the last frame, and a note is
\* being held or was missed.
C22_Witness ==
    /\ replay = MaxFrames + 1
    /\ emitted # <<>>
    /\ \E n \in DOMAIN notesState : notesState[n].hit
    /\ \E n \in DOMAIN notesState : notesState[n].missed \/ notesState[n].isHolding

-----------------------------------------------------------------------------
(* Properties of the generated notes at the thresholds, checked under
   SpecGenBoundary *)

\* The notes of the chart being built and of the charts returned.
GeneratedNotes ==
    Range(notes) \cup UNION { Range(returned[c].chart) : c \in DOMAIN returned }

\* C23: every generated note has layer 0 when its pitch is below 55, layer 2
\* when its pitch is above 70 and layer 1 otherwise, pitches 55 and 70
\* included; the layer is always one of 0, 1, 2.
C23_LayerByPitch ==
    \A n \in GeneratedNotes :
        /\ n.lineLayer \in 0..2
        /\ n.audio.midi < 55 => n.lineLayer = 0
        /\ n.audio.midi > 70 => n.lineLayer = 2
        /\ (n.audio.midi >= 55 /\ n.audio.midi <= 70) => n.lineLayer = 1

\* A returned chart holds a note of pitch 55 and one of pitch 70, both on
\* layer 1; another holds notes of pitch 54 and 71, on layers 0 and 2.
C23_Witness ==
    /\ genPc = "idle"
    /\ Len(returned) = MaxCalls
    /\ \E n, m \in Range(returned[1].chart) :
        \/ n.audio.midi = 55 /\ m.audio.midi = 70 /\ n.lineLayer = 1 /\ m.lineLayer = 1
        \/ n.audio.midi = 54 /\ m.audio.midi = 71 /\ n.lineLayer = 0 /\ m.lineLayer = 2

\* C24: every generated note comes from an event of its pitch and time whose
\* duration it keeps in audio.duration; its length is that duration when the
\* duration is above 0.2 s, and 0 otherwise (0.2 s exactly and 0 included).
C24_LengthByDuration ==
    \A n \in GeneratedNotes :
        /\ \E e \in Range(FlatMap(midi)) :
            /\ e.midi = n.audio.midi
            /\ e.time = n.time
            /\ e.duration = n.audio.duration
        /\ n.audio.duration > 200 => n.length = n.audio.duration
        /\ n.audio.duration <= 200 => n.length = 0

\* A returned chart holds a note of duration exactly 0.2 s or of duration 0,
\* of length 0 with its duration kept, and a hold of 0.201 s.
C24_Witness ==
    /\ genPc = "idle"
    /\ returned # <<>>
    /\ \E n, m \in Range(returned[1].chart) :
        /\ n.audio.duration \in {0, 200}
        /\ n.length = 0
        /\ m.audio.duration = 201
        /\ m.length = 201

-----------------------------------------------------------------------------
(* The order of the returned lists, checked under SpecGen *)

\* keys, a list of event keys, is in non-decreasing time order, and two
\* different keys of equal time stand in it in an order in which their events
\* are encountered in the input (track by track, each track in its order).
InEncounterOrder(keys) ==
    LET flat == FlatMap(midi) IN
    \A a, b \in DOMAIN keys : a < b =>
        /\ keys[a].time <= keys[b].time
        /\ (keys[a].time = keys[b].time /\ keys[a] # keys[b]) =>
               \E pa, pb \in DOMAIN flat :
                   /\ pa < pb
                   /\ EventKey(flat[pa]) = keys[a]
                   /\ EventKey(flat[pb]) = keys[b]

\* C25: the returned chart and the returned backgroundEvents are each in
\* non-decreasing time order, and events of equal time keep their encounter
\* order in the list they land in.
C25_TimeOrderStable ==
    \A c \in DOMAIN returned :
        /\ InEncounterOrder(ChartKeys(returned[c]))
        /\ InEncounterOrder(BackgroundKeys(returned[c]))

\* A call returned a list of two different events of equal time, from an
\* input that holds an event of a later time before one of them.
C25_Witness ==
    /\ returned # <<>>
    /\ \E keys \in {ChartKeys(returned[1]), BackgroundKeys(returned[1])} :
        /\ Len(keys) = 2
        /\ keys[1].time = keys[2].time
        /\ keys[1] # keys[2]

\* A call returned a chart or a background list of two events from an input
\* that holds them in decreasing time order.
C25_WitnessSorted ==
    /\ returned # <<>>
    /\ \E keys \in {ChartKeys(returned[1]), BackgroundKeys(returned[1])} :
        /\ Len(keys) = 2
        /\ keys[1].time < keys[2].time
        /\ EventKey(FlatMap(midi)[1]) = keys[2]

-----------------------------------------------------------------------------
(* The game with App's handlers and GameScene's camera shake *)

\* App's score state as one record.
ScoreState ==
    [score |-> score, combo |-> combo, multiplier |-> multiplier, health |-> health,
     endGameDue |-> endGameDue]

\* Mutant of handleNoteHit: the keysound trigger is not inside a try block, so
\* an exception it throws leaves the handler before the state updates.
handleNoteHitUncaught(a, m, goodCut, throws) ==
    IF throws THEN a
    ELSE LET points == IF goodCut THEN 150 ELSE 100
             newCombo == a.combo + 1
         IN  [a EXCEPT !.combo = newCombo,
                       !.multiplier = IF newCombo > 30 THEN 8
                                      ELSE IF newCombo > 20 THEN 4
                                      ELSE IF newCombo > 10 THEN 2 ELSE 1,
                       !.score = @ + points * m,
                       !.health = IF @ + 2 > 100 THEN 100 ELSE @ + 2]

\* Mutant of handleNoteHit: the thresholds of the multiplier are inclusive.
handleNoteHitThresholdsInclusive(a, m, goodCut, throws) ==
    LET points == IF goodCut THEN 150 ELSE 100
        newCombo == a.combo + 1
    IN  [a EXCEPT !.combo = newCombo,
                  !.multiplier = IF newCombo >= 30 THEN 8
                                 ELSE IF newCombo >= 20 THEN 4
                                 ELSE IF newCombo >= 10 THEN 2 ELSE 1,
                  !.score = @ + points * m,
                  !.health = IF @ + 2 > 100 THEN 100 ELSE @ + 2]

\* handleNoteHit(note, goodCut), m being the multiplier of the render the
\* callback was made in.  The keysound trigger is inside try { } catch { }:
\* whether it throws or not, the updates of combo, multiplier, score and
\* health follow.
handleNoteHit(a, m, goodCut, throws) ==
    LET points == IF goodCut THEN 150 ELSE 100
        newCombo == a.combo + 1
    IN  [a EXCEPT !.combo = newCombo,
                  !.multiplier = IF newCombo > 30 THEN 8
                                 ELSE IF newCombo > 20 THEN 4
                                 ELSE IF newCombo > 10 THEN 2 ELSE 1,
                  !.score = @ + points * m,
                  !.health = IF @ + 2 > 100 THEN 100 ELSE @ + 2]

\* handleNoteHold(note): setScore(s => s + (2 * multiplier))
handleNoteHold(a, m) == [a EXCEPT !.score = @ + 2 * m]

\* Mutant of handleNoteMiss: health is not floored at 0.
handleNoteMissUnfloored(a) ==
    [a EXCEPT !.combo = 0,
              !.multiplier = 1,
              !.health = @ - 15,
              !.endGameDue = @ \/ a.health - 15 <= 0]

\* handleNoteMiss(note): combo and multiplier reset, health - 15, and at 0 the
\* timeout that ends the game.
handleNoteMiss(a) ==
    [a EXCEPT !.combo = 0,
              !.multiplier = 1,
              !.health = IF @ - 15 <= 0 THEN 0 ELSE @ - 15,
              !.endGameDue = @ \/ a.health - 15 <= 0]

\* The callbacks of a frame, in the order the frame invoked them.  GameScene
\* passes goodCut = true in each of its three calls of handleHit.
RECURSIVE ApplyCallbacks(_, _, _, _)
ApplyCallbacks(a, out, m, throws) ==
    IF out = <<>> THEN a
    ELSE LET ev == Head(out).event
             b  == IF ev = "onNoteHit" THEN handleNoteHit(a, m, TRUE, throws)
                   ELSE IF ev = "onNoteHold" THEN handleNoteHold(a, m)
                   ELSE handleNoteMiss(a)
         IN  ApplyCallbacks(b, Tail(out), m, throws)

\* The callbacks of a frame when React batches their state updates into one
\* render.  handleNoteHit calls setMultiplier inside the updater it passes to
\* setCombo.  The updater of the first update queued on App runs at once
\* (first), so its setMultiplier is queued in program order; the updater of
\* a later one runs during the render, and its setMultiplier is applied after
\* every update queued before the render (late), a later handleNoteMiss's
\* setMultiplier(1) included.
RECURSIVE QueueCallbacks(_, _, _, _, _, _)
QueueCallbacks(a, out, m, throws, late, first) ==
    IF out = <<>>
    THEN IF late = <<>> THEN a ELSE [a EXCEPT !.multiplier = late[1]]
    ELSE LET ev == Head(out).event
         IN  IF ev = "onNoteHit"
             THEN LET b == handleNoteHit(a, m, TRUE, throws)
                  IN  IF first
                      THEN QueueCallbacks(b, Tail(out), m, throws, late, FALSE)
                      ELSE QueueCallbacks([b EXCEPT !.multiplier = a.multiplier],
                                          Tail(out), m, throws,
                                          IF b.combo = a.combo THEN late ELSE <<b.multiplier>>,
                                          FALSE)
             ELSE IF ev = "onNoteHold"
             THEN QueueCallbacks(handleNoteHold(a, m), Tail(out), m, throws, late, FALSE)
             ELSE QueueCallbacks(handleNoteMiss(a), Tail(out), m, throws, late, FALSE)

\* App's state after the callbacks out of a frame: with every update rendered
\* before the next one is made (a root that does not batch), or with the
\* updates of the frame batched into one render.
AfterCallbacks(a, out, m, throws, batched) ==
    IF batched
    THEN QueueCallbacks(a, out, m, throws, <<>>, TRUE)
    ELSE ApplyCallbacks(a, out, m, throws)

\* The branch of the note loop that hit note (not hit before) at clock value
\* time was an auto-play branch: handleHit(note, true, true).
AutoPlayHit(mode, note, time) ==
    /\ AutoPlayed(mode, note)
    /\ CurrentZ(note, time) >= PLAYER_Z - 100

\* The notes the frame that led to the primed state has hit.
NewlyHit == { n \in DOMAIN notesState : ~notesState[n].hit /\ notesState'[n].hit }

\* The camera-shake block of the frame: lerp(shakeIntensity, 0, 10 * delta),
\* and 0 once below 0.01 (dt in ms).
ShakeDecay(sh, dt) ==
    IF sh > 0
    THEN LET v == sh - (sh * 10 * dt) \div 1000 IN IF v < 10 THEN 0 ELSE v
    ELSE sh

\* Mutant of VisibleNotes: the filter does not look at the game mode.
VisibleNotesAnyMode(now) ==
    { n \in 1..nextNoteIndexRef :
        /\ ~notesState[n].missed
        /\ (notesState[n].hit /\ notesState[n].length = 0 /\ notesState[n].hitTime # <<>>
                /\ notesState[n].hitTime # <<0>>)
              => now - notesState[n].hitTime[1] <= 1000
        /\ (notesState[n].hit /\ notesState[n].length > 0) => n \in ActiveNotes }

\* GameScene's visibleNotes, computed at clock value now: the spawned notes
\* that are not of the hand the mode plays by itself, not missed, and, once
\* hit, debris for a second (a hitTime of 0 is falsy) or a hold still active.
VisibleNotes(now) ==
    { n \in 1..nextNoteIndexRef :
        /\ ~AutoPlayed(gameMode, notesState[n])
        /\ ~notesState[n].missed
        /\ (notesState[n].hit /\ notesState[n].length = 0 /\ notesState[n].hitTime # <<>>
                /\ notesState[n].hitTime # <<0>>)
              => now - notesState[n].hitTime[1] <= 1000
        /\ (notesState[n].hit /\ notesState[n].length > 0) => n \in ActiveNotes }

\* The render after a frame: useMemo(..., [notesState, visibleNoteCount])
\* computes visibleNotes again only when the frame has called
\* setVisibleNoteCount, which it does when it spawns a note, closes a hold,
\* changes isHolding, misses or hits; otherwise the memoized list stays.
RenderAfterFrame ==
    visibleNotes' =
        IF <<notesState', activeNotesRef', nextNoteIndexRef'>>
               # <<notesState, activeNotesRef, nextNoteIndexRef>>
        THEN VisibleNotes(clock)'
        ELSE visibleNotes

\* The advance of the clock between two frames of this specification.
PlaySteps == FrameSteps \ {0}

\* A frame, the handlers it calls, and the camera shake it leaves: the shake
\* decays before the note loop, and a hit that is not an auto-play hit sets
\* it to 0.3.  A keysound trigger of the frame's hits may throw.
FramePlay ==
    /\ FrameIn(PlaySteps, GamePoses)
    /\ \E throws \in BOOLEAN :
        /\ keysoundThrew' = (throws /\ \E j \in DOMAIN emitted' : emitted'[j].event = "onNoteHit")
        /\ \E a \in { AfterCallbacks(ScoreState, emitted', multiplier, throws, batched) :
                         batched \in BOOLEAN } :
            /\ score' = a.score
            /\ combo' = a.combo
            /\ multiplier' = a.multiplier
            /\ health' = a.health
            /\ endGameDue' = a.endGameDue
    /\ shakeIntensity' =
           IF \E n \in NewlyHit : ~AutoPlayHit(gameMode, notesState[n], clock')
           THEN 300
           ELSE ShakeDecay(shakeIntensity, clock' - clock)
    /\ RenderAfterFrame
    /\ UNCHANGED <<renderVars, replayVars, uiVars>>

NextPlay == FramePlay

SpecPlay == Init /\ [][NextPlay]_vars

\* The callbacks of the given kind the frame that led to the primed state
\* invoked.
CallsOf(ev) == Cardinality({ j \in DOMAIN emitted' : emitted'[j].event = ev })

\* C28: a frame in which the keysound trigger of a hit threw still counts
\* every hit: without a miss in the frame, combo grows by the number of hits,
\* score by 150 per hit (and 2 per hold callback) times the multiplier,
\* health by 2 per hit up to 100; the notes hit stay hit; and the frame has
\* gone through the whole active list, so that every note it left active and
\* not holding is neither beyond the miss threshold nor colliding.
C28_KeysoundFailureSwallowed ==
    [][ keysoundThrew' =>
          /\ CallsOf("onNoteMiss") = 0 =>
                /\ combo' = combo + CallsOf("onNoteHit")
                /\ score' = score + (150 * CallsOf("onNoteHit")
                                       + 2 * CallsOf("onNoteHold")) * multiplier
                /\ health' = IF health + 2 * CallsOf("onNoteHit") > 100 THEN 100
                             ELSE health + 2 * CallsOf("onNoteHit")
          /\ CallsOf("onNoteMiss") > 0 => combo' <= CallsOf("onNoteHit")
          /\ \A j \in DOMAIN emitted' :
                emitted'[j].event = "onNoteHit" => notesState'[emitted'[j].note].hit
          /\ \A j \in DOMAIN activeNotesRef' :
                LET note == notesState'[activeNotesRef'[j]] IN
                ~note.hit =>
                    /\ CurrentZ(note, clock') <= MISS_Z
                    /\ ~(/\ CurrentZ(note, clock') > PLAYER_Z - 2500
                         /\ CurrentZ(note, clock') < PLAYER_Z + 1500
                         /\ Collides(HandPos(hands', note), note, CurrentZ(note, clock')))
      ]_vars

\* A keysound trigger threw in a frame that hit two notes, and both count.
C28_Witness ==
    /\ keysoundThrew
    /\ Cardinality({ j \in DOMAIN emitted : emitted[j].event = "onNoteHit" }) = 2
    /\ combo = 2
    /\ score = 300
    /\ \A n \in DOMAIN notesState : notesState[n].hit

\* C29: in a single-hand mode no note of the hand the game plays by itself
\* is among the visible notes, whatever its state; and a frame whose hits are
\* all auto-play hits does not raise the camera shake.
C29_UnusedHandHiddenNoShake ==
    /\ [](\A n \in VisibleNotes(clock) : ~AutoPlayed(gameMode, notesState[n]))
    /\ [][ (NewlyHit # {} /\ \A n \in NewlyHit : AutoPlayHit(gameMode, notesState[n], clock'))
              => shakeIntensity' <= shakeIntensity ]_vars

\* A single-hand game in which a note of the other hand has been hit by
\* auto-play with no shake, while a note of the playing hand is visible.
C29_Witness ==
    /\ gameMode # "STANDARD"
    /\ shakeIntensity = 0
    /\ \E n \in DOMAIN notesState :
        /\ AutoPlayed(gameMode, notesState[n])
        /\ notesState[n].hit
        /\ notesState[n].hitTime = <<clock>>
        /\ n \notin VisibleNotes(clock)
    /\ VisibleNotes(clock) # {}

-----------------------------------------------------------------------------
(* App: selecting a song, loading it, starting the game, the countdown *)

\* The songs of the list: one whose file loads and parses (to midi), one whose
\* fetch is not ok, one whose bytes @tonejs/midi cannot parse.
Songs ==
    { [id |-> "good",    file |-> "ok"],
      [id |-> "missing", file |-> "notFound"],
      [id |-> "corrupt", file |-> "parseError"] }

\* loadMidi: throw new Error(`File not found (404)`) when !response.ok; the
\* other message stands for whatever new Midi(arrayBuffer) throws.
LoadError(song) ==
    IF song.file = "notFound" THEN "File not found (404)" ELSE "midi parse error"

\* The inputs: a drum track of kicks at 0 and 0.02 s, and a melodic track of a
\* lead note at 0 or of the lead note of pitch 64 at 1.0 s lasting 0.1 s.
AppDrumNotes ==
    { [time |-> t, midi |-> 36, name |-> NoteName(36), velocity |-> 80, duration |-> 200] :
        t \in {0, 20} }

AppLeadNotes ==
    { [time |-> 0,    midi |-> 62, name |-> NoteName(62), velocity |-> 80, duration |-> 200],
      [time |-> 1000, midi |-> 64, name |-> NoteName(64), velocity |-> 80, duration |-> 100] }

AppInputs ==
    { << [percussion |-> TRUE,  channel |-> 9, notes |-> a],
         [percussion |-> FALSE, channel |-> 0, notes |-> b] >> :
        <<a, b>> \in UNION { [1..n -> AppDrumNotes] \X [1..m -> AppLeadNotes] :
                               <<n, m>> \in { <<x, y>> \in (0..MaxEvents) \X (0..MaxEvents) :
                                               x + y <= MaxEvents } } }

\* The song list is shown: the metadata is loaded, the camera is ready and the
\* player has left the start screen.
InitApp ==
    /\ difficulty \in Difficulties
    /\ midi \in AppInputs
    /\ genPc = "idle"
    /\ allEvents = <<>>
    /\ i = 1
    /\ notes = <<>>
    /\ backgroundEvents = <<>>
    /\ idCount = 0
    /\ lastTimeForHand = [h \in HandTypes |-> -2000]
    /\ returned = <<>>
    /\ EngineIdle
    /\ AppIdle

\* midi.duration: the end of the last note (0 without notes), in ms.
MidiDuration ==
    LET ends == { e.time + e.duration : e \in Range(FlatMap(midi)) }
    IN  IF ends = {} THEN 0 ELSE CHOOSE m \in ends : \A x \in ends : x <= m

\* startMusic's minimum distance to the last scheduled event of the same
\* instrument (ms): MONO_BUFFER for kick, snare and bass, 0.04 s for the
\* hi-hat; the lead has none.
MonoBuffer(instrument) ==
    IF instrument \in {"kick", "snare", "bass"} THEN 80
    ELSE IF instrument = "hihat" THEN 40
    ELSE 0

\* Mutant of ScheduleFrom: the events go onto the transport at their own time.
RECURSIVE ScheduleFromUnshifted(_, _, _)
ScheduleFromUnshifted(bg, k, last) ==
    IF k > Len(bg) THEN <<>>
    ELSE LET time == bg[k].time
             ins  == bg[k].instrument
         IN  IF ins = "lead"
             THEN <<[time |-> time, instrument |-> ins, event |-> k]>>
                      \o ScheduleFromUnshifted(bg, k + 1, last)
             ELSE IF time - last[ins] >= MonoBuffer(ins)
             THEN <<[time |-> time, instrument |-> ins, event |-> k]>>
                      \o ScheduleFromUnshifted(bg, k + 1, [last EXCEPT ![ins] = time])
             ELSE ScheduleFromUnshifted(bg, k + 1, last)

\* backgroundEvents.forEach in startMusic, from event k on, last being
\* lastScheduled: an event goes onto the transport at its time + LEAD_IN_TIME,
\* a kick, snare, hi-hat or bass event only when that is far enough from the
\* last one scheduled for its instrument.
RECURSIVE ScheduleFrom(_, _, _)
ScheduleFrom(bg, k, last) ==
    IF k > Len(bg) THEN <<>>
    ELSE LET time == bg[k].time + LEAD_IN_TIME
             ins  == bg[k].instrument
         IN  IF ins = "lead"
             THEN <<[time |-> time, instrument |-> ins, event |-> k]>>
                      \o ScheduleFrom(bg, k + 1, last)
             ELSE IF time - last[ins] >= MonoBuffer(ins)
             THEN <<[time |-> time, instrument |-> ins, event |-> k]>>
                      \o ScheduleFrom(bg, k + 1, [last EXCEPT ![ins] = time])
             ELSE ScheduleFrom(bg, k + 1, last)

\* startMusic(midi, backgroundEvents): the background events, then the end of
\* the song at midi.duration + LEAD_IN_TIME + 2 (event 0).
startMusic(bg) ==
    ScheduleFrom(bg, 1, [ins \in {"kick", "snare", "hihat", "bass"} |-> -100000])
        \o <<[time |-> MidiDuration + LEAD_IN_TIME + 2000, instrument |-> "end", event |-> 0]>>

\* startGame(midi, chartData, backgroundEvents), with the camera ready and
\* the synths set up, and the render that follows: the transport is stopped,
\* cancelled and rewound; score, combo, multiplier and health are reset; the
\* chart is the chart data with LEAD_IN_TIME added to each time; the status is
\* PLAYING, so GameScene is mounted and its chart effect copies the chart;
\* the music is scheduled and the transport started; the countdown is set
\* to LEAD_IN_TIME and an interval of one second is set.
startGame(chartData, bg) ==
    /\ score' = 0
    /\ combo' = 0
    /\ multiplier' = 1
    /\ health' = 100
    /\ chart' = [k \in DOMAIN chartData |-> FreshNote(chartData[k])]
    /\ gameStatus' = "PLAYING"
    /\ pendingStatus' = <<>>
    /\ notesState' = [k \in DOMAIN chartData |-> NoteWithState(FreshNote(chartData[k]))]
    /\ activeNotesRef' = <<>>
    /\ nextNoteIndexRef' = 0
    /\ hands' = [left |-> Null, right |-> Null]
    /\ emitted' = <<>>
    /\ hitCalls' = [k \in DOMAIN chartData |-> 0]
    /\ missCalls' = [k \in DOMAIN chartData |-> 0]
    /\ shakeIntensity' = 0
    /\ visibleNotes' = {}
    /\ scheduled' = startMusic(bg)
    /\ transport' = "started"
    /\ clock' = 0
    /\ pausedAt' = <<>>
    /\ countdown' = <<LEAD_IN_TIME \div 1000>>
    /\ intervals' = intervals + 1
    /\ UNCHANGED <<gameMode, endGameDue, keysoundThrew, renderVars, replayVars>>

\* preloadSong(song) for the song that loads, up to its await of loadMidi.
\* For the two others loadMidi rejects and the catch only logs.
PreloadStart ==
    /\ preloaded = <<>>
    /\ loading = <<>>
    /\ genPc = "idle"
    /\ Len(returned) < MaxCalls
    /\ \E song \in Songs :
        /\ song.file = "ok"
        /\ loading' = [kind |-> "preload", song |-> song, calls |-> Len(returned)]
    /\ UNCHANGED <<genVars, engineVars, renderVars, replayVars, scoreVars, sceneVars,
                   errorMessage, selectedSong, isSongLoading, preloaded, countdown,
                   intervals, scheduled>>

\* handleSongSelect(song), from the song list, or from the end screen for the
\* selected song, up to its await of loadMidi; with the song in the cache it
\* goes on to startGame at once.
SongSelect ==
    /\ loading = <<>>
    /\ pendingStatus = <<>>
    /\ \E song \in Songs :
        /\ \/ gameStatus = "SONG_SELECTION"
           \/ gameStatus \in {"GAME_OVER", "VICTORY"} /\ selectedSong = <<song>>
        /\ errorMessage' = <<>>
        /\ selectedSong' = <<song>>
        /\ IF song.file = "ok" /\ preloaded # <<>>
           THEN /\ isSongLoading' = FALSE
                /\ loading' = <<>>
                /\ startGame(returned[preloaded[1]].chart,
                             returned[preloaded[1]].backgroundEvents)
                /\ UNCHANGED <<genVars, preloaded>>
           ELSE /\ song.file = "ok" => Len(returned) < MaxCalls
                /\ isSongLoading' = TRUE
                /\ loading' = [kind |-> "select", song |-> song, calls |-> Len(returned)]
                /\ UNCHANGED <<genVars, engineVars, renderVars, replayVars, scoreVars,
                               sceneVars, preloaded, countdown, intervals, scheduled>>

\* Mutant of LoadFail: the catch starts the game with the chart of the last
\* load.
LoadFailStartsGame ==
    /\ loading # <<>>
    /\ loading.kind = "select"
    /\ loading.song.file # "ok"
    /\ isSongLoading' = FALSE
    /\ selectedSong' = <<>>
    /\ errorMessage' = <<"Could not load song: ", LoadError(loading.song)>>
    /\ loading' = <<>>
    /\ IF returned # <<>>
       THEN /\ startGame(returned[1].chart, returned[1].backgroundEvents)
            /\ UNCHANGED <<genVars, preloaded>>
       ELSE UNCHANGED <<genVars, engineVars, renderVars, replayVars, scoreVars, sceneVars,
                        preloaded, countdown, intervals, scheduled>>

\* loadMidi rejects in handleSongSelect: the catch clears the loading flag and
\* the selected song and sets the error message from e.message.
LoadFail ==
    /\ loading # <<>>
    /\ loading.kind = "select"
    /\ loading.song.file # "ok"
    /\ isSongLoading' = FALSE
    /\ selectedSong' = <<>>
    /\ errorMessage' = <<"Could not load song: ", LoadError(loading.song)>>
    /\ loading' = <<>>
    /\ UNCHANGED <<genVars, engineVars, renderVars, replayVars, scoreVars, sceneVars,
                   preloaded, countdown, intervals, scheduled>>

\* loadMidi resolves: generateChartFromMidi(midi, song.difficulty) is called.
LoadGenerate ==
    /\ loading # <<>>
    /\ loading.song.file = "ok"
    /\ Len(returned) = loading.calls
    /\ GenCall

\* generateChartFromMidi has returned to preloadSong: the entry is cached.
PreloadDone ==
    /\ loading # <<>>
    /\ loading.kind = "preload"
    /\ genPc = "idle"
    /\ Len(returned) = loading.calls + 1
    /\ preloaded' = <<Len(returned)>>
    /\ loading' = <<>>
    /\ UNCHANGED <<genVars, engineVars, renderVars, replayVars, scoreVars, sceneVars,
                   errorMessage, selectedSong, isSongLoading, countdown, intervals,
                   scheduled>>

\* generateChartFromMidi has returned to handleSongSelect:
\* setIsSongLoading(false); startGame(midi, chart, backgroundEvents).
LoadDone ==
    /\ loading # <<>>
    /\ loading.kind = "select"
    /\ genPc = "idle"
    /\ Len(returned) = loading.calls + 1
    /\ isSongLoading' = FALSE
    /\ loading' = <<>>
    /\ startGame(returned[Len(returned)].chart, returned[Len(returned)].backgroundEvents)
    /\ UNCHANGED <<genVars, errorMessage, selectedSong, preloaded>>

\* The countdown interval fires, a second of wall-clock time after it was set
\* or last fired, whatever the game status:
\* setCountdown(prev => prev === null || prev <= 1 ? (clearInterval, null) : prev - 1)
CountdownTick ==
    /\ intervals > 0
    /\ IF countdown = <<>> \/ countdown[1] <= 1
       THEN countdown' = <<>> /\ intervals' = intervals - 1
       ELSE countdown' = <<countdown[1] - 1>> /\ UNCHANGED intervals
    /\ UNCHANGED <<genVars, engineVars, renderVars, replayVars, scoreVars, sceneVars,
                   errorMessage, selectedSong, isSongLoading, loading, preloaded,
                   scheduled>>

\* The game ends: the end of the song is LEAD_IN_TIME + 2 s or more into the
\* transport, when the countdown has run out.
EndGameApp ==
    /\ countdown = <<>>
    /\ EndGame

\* goToSelection, from the start screen.
GoToSelection ==
    /\ gameStatus = "IDLE"
    /\ gameStatus' = "SONG_SELECTION"
    /\ UNCHANGED <<gameMode, chart, notesState, activeNotesRef, nextNoteIndexRef, clock,
                   hands, emitted, hitCalls, missCalls, transport, pendingStatus,
                   pausedAt, genVars, appVars>>

\* goToMenu, from the song list or the end screen.
GoToMenu ==
    /\ gameStatus \in {"SONG_SELECTION", "GAME_OVER", "VICTORY"}
    /\ IF loading = <<>> THEN TRUE ELSE loading.kind = "preload"
    /\ gameStatus' = "IDLE"
    /\ selectedSong' = <<>>
    /\ errorMessage' = <<>>
    /\ UNCHANGED <<gameMode, chart, notesState, activeNotesRef, nextNoteIndexRef, clock,
                   hands, emitted, hitCalls, missCalls, transport, pendingStatus,
                   pausedAt, genVars, renderVars, replayVars, scoreVars, sceneVars,
                   isSongLoading, loading, preloaded, countdown, intervals, scheduled>>

NextApp ==
    \/ PreloadStart \/ SongSelect \/ LoadFail \/ LoadGenerate \/ GenStep \/ GenReturn
    \/ PreloadDone \/ LoadDone \/ CountdownTick \/ EndGameApp \/ CommitStatus
    \/ GoToSelection \/ GoToMenu

SpecApp == InitApp /\ [][NextApp]_vars

\* App with a pause and a resume.
NextAppPause == NextApp \/ Pause \/ Resume

SpecAppPause == InitApp /\ [][NextAppPause]_vars

-----------------------------------------------------------------------------
(* Properties of App, checked under SpecApp *)

\* The step is the catch of a handleSongSelect whose loadMidi rejected.
LoadFailed ==
    /\ loading # <<>>
    /\ loading.kind = "select"
    /\ loading.song.file # "ok"
    /\ loading' = <<>>

\* C26: when loadMidi rejects in handleSongSelect, no chart is generated, an
\* error message is set, the selected song and the loading flag are cleared,
\* the game status and the game chart stay as they were and the status is not
\* PLAYING; the message holds 'File not found' exactly when the fetch was not
\* ok, and not when the file could not be parsed.
C26_LoadFailureLeavesGame ==
    [][ LoadFailed =>
          /\ returned' = returned
          /\ errorMessage' # <<>>
          /\ selectedSong' = <<>>
          /\ ~isSongLoading'
          /\ gameStatus' = gameStatus
          /\ gameStatus' # "PLAYING"
          /\ chart' = chart
          /\ notesState' = notesState
          /\ (errorMessage'[2] = "File not found (404)") <=> (loading.song.file = "notFound")
      ]_vars

\* After a game, the load of the missing song has failed: the error is set,
\* the chart of the game is still there, and the song list is shown.
C26_Witness ==
    /\ errorMessage = <<"Could not load song: ", "File not found (404)">>
    /\ selectedSong = <<>>
    /\ ~isSongLoading
    /\ loading = <<>>
    /\ chart # <<>>
    /\ gameStatus = "SONG_SELECTION"

\* The game that is being played was started from the result c of the
\* generator: the chart is that result's chart with every note LEAD_IN_TIME
\* later and otherwise as generated.
ChartShifted(c) ==
    /\ Len(chart) = Len(returned[c].chart)
    /\ \A n \in 1..Len(chart) :
        /\ chart[n].time = returned[c].chart[n].time + LEAD_IN_TIME
        /\ [chart[n] EXCEPT !.time = 0] = [returned[c].chart[n] EXCEPT !.time = 0]

\* Background event k of result c is on the transport at its time plus
\* LEAD_IN_TIME.
OnTransportShifted(c, k) ==
    \E s \in 1..Len(scheduled) :
        /\ scheduled[s].event = k
        /\ scheduled[s].instrument = returned[c].backgroundEvents[k].instrument
        /\ scheduled[s].time = returned[c].backgroundEvents[k].time + LEAD_IN_TIME

\* Scenario A: the song is the lone lead note of pitch 64 at 1.0 s lasting
\* 0.1 s and the difficulty is Medium.
ScenarioA ==
    /\ difficulty = "Medium"
    /\ Len(FlatMap(midi)) = 1
    /\ \E e \in Range(FlatMap(midi)) : e.midi = 64 /\ e.time = 1000 /\ e.duration = 100

\* In scenario A the chart is one note for the right hand, of length 0, at
\* 1.0 s plus the lead-in.
ScenarioAChart ==
    ScenarioA =>
        /\ Len(chart) = 1
        /\ chart[1].type = "right"
        /\ chart[1].length = 0
        /\ chart[1].time = 1000 + LEAD_IN_TIME

\* C27 as stated: while a game is played, the chart is a generated chart with
\* LEAD_IN_TIME added to every time, every background event of that result is
\* scheduled at its time plus LEAD_IN_TIME, and scenario A gives its one note.
C27_EveryEventScheduledShifted ==
    gameStatus = "PLAYING" =>
        /\ \E c \in 1..Len(returned) :
            /\ ChartShifted(c)
            /\ \A k \in 1..Len(returned[c].backgroundEvents) : OnTransportShifted(c, k)
        /\ ScenarioAChart

\* C27, amended: while a game is played, the chart is a generated chart with
\* LEAD_IN_TIME added to every time; what is on the transport, before the end
\* of the song at midi.duration + LEAD_IN_TIME + 2 s, are background events of
\* that result in their order, each once and at its time plus LEAD_IN_TIME;
\* every lead event is among them; a kick, snare, hi-hat or bass event is
\* among them exactly when it is its instrument's buffer (0.08 s, hi-hat
\* 0.04 s) or more after the last event of its instrument that is among them;
\* and scenario A gives its one note.
C27_ScheduledEventsShifted ==
    gameStatus = "PLAYING" =>
        /\ \E c \in 1..Len(returned) :
            LET bg   == returned[c].backgroundEvents
                on   == { scheduled[s].event : s \in 1..(Len(scheduled) - 1) }
                prev(k) == { j \in on : j < k /\ bg[j].instrument = bg[k].instrument }
            IN  /\ ChartShifted(c)
                /\ Len(scheduled) >= 1
                /\ scheduled[Len(scheduled)] =
                       [time |-> MidiDuration + LEAD_IN_TIME + 2000,
                        instrument |-> "end", event |-> 0]
                /\ on \subseteq 1..Len(bg)
                /\ \A s, t \in 1..(Len(scheduled) - 1) :
                       s < t => scheduled[s].event < scheduled[t].event
                /\ \A k \in on : OnTransportShifted(c, k)
                /\ \A k \in 1..Len(bg) :
                       IF bg[k].instrument = "lead"
                       THEN k \in on
                       ELSE k \in on <=>
                              \A j \in prev(k) :
                                  (\A l \in prev(k) : l <= j) =>
                                      bg[k].time - bg[j].time >= MonoBuffer(bg[k].instrument)
        /\ ScenarioAChart

\* A game is played whose song has two kicks 0.02 s apart: the first is on
\* the transport at LEAD_IN_TIME and the second is not on it.
C27_Witness ==
    /\ gameStatus = "PLAYING"
    /\ \E c \in 1..Len(returned) :
        /\ ChartShifted(c)
        /\ Len(returned[c].backgroundEvents) = 2
        /\ returned[c].backgroundEvents[1].time = 0
        /\ returned[c].backgroundEvents[2].time = 20
        /\ \A k \in 1..2 : returned[c].backgroundEvents[k].instrument = "kick"
    /\ Len(scheduled) = 2
    /\ scheduled[1] = [time |-> LEAD_IN_TIME, instrument |-> "kick", event |-> 1]

\* A game of scenario A is played.
C27_WitnessScenarioA ==
    /\ gameStatus = "PLAYING"
    /\ ScenarioA
    /\ Len(chart) = 1
    /\ chart[1].time = 1000 + LEAD_IN_TIME

-----------------------------------------------------------------------------
(* The countdown and the game status, checked under SpecAppPause *)

-----------------------------------------------------------------------------
(* What a frame writes to a note, checked under Spec *)

\* The fields of a note the generator and startGame set.
StaticFields(n) ==
    [id |-> n.id, time |-> n.time, length |-> n.length, lineIndex |-> n.lineIndex,
     lineLayer |-> n.lineLayer, type |-> n.type, cutDirection |-> n.cutDirection,
     audio |-> n.audio]

\* C31: a frame leaves every note's id, time, length, lineIndex, lineLayer,
\* type, cutDirection and audio as they were (and so as in the chart) and
\* adds no field; hitTime is set on a note exactly on the frame that sets
\* hit, to that frame's clock value, and is not written again.
C31_FrameWritesOnlyStateFields ==
    [][ /\ DOMAIN notesState' = DOMAIN notesState
        /\ \A n \in DOMAIN notesState :
            /\ DOMAIN notesState'[n] = DOMAIN notesState[n]
            /\ StaticFields(notesState'[n]) = StaticFields(notesState[n])
            /\ StaticFields(notesState'[n]) = StaticFields(chart[n])
            /\ (~notesState[n].hit /\ notesState'[n].hit) =>
                   notesState'[n].hitTime = <<clock'>>
            /\ notesState'[n].hitTime # notesState[n].hitTime =>
                   /\ ~notesState[n].hit
                   /\ notesState[n].hitTime = <<>>
                   /\ notesState'[n].hit
      ]_vars

\* A note was hit on an earlier frame, away from its own time, and a later
\* frame has run: its hitTime is still that frame's clock value.
C31_Witness ==
    \E n \in DOMAIN notesState :
        /\ notesState[n].hit
        /\ notesState[n].hitTime # <<>>
        /\ notesState[n].hitTime[1] < clock
        /\ notesState[n].hitTime[1] # notesState[n].time

-----------------------------------------------------------------------------
(* The active list after a frame, checked under Spec *)

\* The notes that were spawned and have left the active list.
RemovedNotes == { n \in 1..nextNoteIndexRef : n \notin ActiveNotes }

\* A note that has left the active list is not in it after any later frame,
\* keeps its state and gets no callback.
RemovedIsFinal ==
    \A n \in RemovedNotes :
        /\ \A j \in DOMAIN activeNotesRef' : activeNotesRef'[j] # n
        /\ notesState'[n] = notesState[n]
        /\ \A j \in DOMAIN emitted' : emitted'[j].note # n

\* The active list holds each note at most once and only notes before the
\* cursor, none of them missed and none a hit note of length 0.
ActiveListSound ==
    \A j \in DOMAIN activeNotesRef :
        /\ ~notesState[activeNotesRef[j]].missed
        /\ ~(notesState[activeNotesRef[j]].hit /\ notesState[activeNotesRef[j]].length = 0)
        /\ activeNotesRef[j] <= nextNoteIndexRef
        /\ \A k \in DOMAIN activeNotesRef : activeNotesRef[k] = activeNotesRef[j] => k = j

\* C32 as stated: after every frame the active list holds no missed note, no
\* hit note of length 0 and no hit long note at or beyond its time + length;
\* it holds each note at most once and only notes before the cursor; and a
\* note that has left the active list is never put back or looked at again.
C32_NoClosedHoldActive ==
    /\ [](/\ ActiveListSound
          /\ \A j \in DOMAIN activeNotesRef :
               LET note == notesState[activeNotesRef[j]]
               IN  ~(note.hit /\ note.length > 0 /\ clock >= note.time + note.length))
    /\ [][RemovedIsFinal]_vars

\* C32, amended: as stated, except that a hit long note at or beyond its
\* time + length is in the active list after the frame that hit it (and after
\* no other frame).
C32_NoClosedHoldActiveUnlessJustHit ==
    /\ [](/\ ActiveListSound
          /\ \A j \in DOMAIN activeNotesRef :
               LET note == notesState[activeNotesRef[j]]
               IN  (note.hit /\ note.length > 0 /\ clock >= note.time + note.length)
                       => note.hitTime = <<clock>>)
    /\ [][RemovedIsFinal]_vars

\* Three ways out of the active list have been taken and frames have gone on:
\* a single hit has left the list and a held note is still in it on a later
\* frame; or a note was missed, or a hold has closed, before the present frame.
C32_Witness ==
    /\ \E n \in RemovedNotes :
        /\ notesState[n].hit
        /\ notesState[n].length = 0
        /\ notesState[n].hitTime[1] < clock
    /\ \E m \in ActiveNotes :
        /\ notesState[m].hit
        /\ notesState[m].length > 0
        /\ \E j \in DOMAIN emitted : emitted[j] = [event |-> "onNoteHold", note |-> m]

\* A missed note and a long note whose hold has closed have both left the
\* active list, on frames before the present one.
C32_WitnessMissedAndClosed ==
    /\ \E n \in RemovedNotes : notesState[n].missed
    /\ \E m \in RemovedNotes : notesState[m].hit /\ notesState[m].length > 0
    /\ emitted = <<>>

\* Auto-play has hit a long note on a frame at or beyond its time + length:
\* the note is in the active list after that frame.
C32_WitnessLateHit ==
    \E m \in ActiveNotes :
        /\ notesState[m].hit
        /\ notesState[m].length > 0
        /\ clock >= notesState[m].time + notesState[m].length
        /\ notesState[m].hitTime = <<clock>>

-----------------------------------------------------------------------------
(* The visible notes as time goes on *)

\* Frames are taken while the clock is at most this (ms): more than a second
\* after the latest hit of the first notes.
MaxSceneClock == 4400

\* The clock's advance between two frames of this specification.
SceneSteps == {100, 800}

\* The hand slot contents of its frames: no hand, or both on their anchors.
ScenePoses ==
    { [left |-> Null,             right |-> Null],
      [left |-> OnAnchor("left"), right |-> OnAnchor("right")] }

\* A frame and the render that follows it.
FrameScene ==
    /\ FrameUpTo(SceneSteps, ScenePoses, MaxSceneClock)
    /\ RenderAfterFrame
    /\ UNCHANGED <<shakeIntensity, renderVars, replayVars, scoreVars, uiVars>>

NextScene == FrameScene

SpecScene == Init /\ [][NextScene]_vars

\* C33: a hit note of length 0 is not among the visible notes once the clock
\* is more than 1.0 s past its hitTime.
C33_DebrisGoneAfterOneSecond ==
    \A n \in DOMAIN notesState :
        ( /\ notesState[n].hit
          /\ notesState[n].length = 0
          /\ notesState[n].hitTime # <<>>
          /\ clock - notesState[n].hitTime[1] > 1000 )
            => n \notin visibleNotes

-----------------------------------------------------------------------------
(* When onNoteHold is called, checked under Spec *)

\* The square of the planar distance (x and y only) of a tracked hand from
\* the note's lane and layer anchor.
PlanarDistSq(handPos, note) ==
    (handPos.x - LANE_X_POSITIONS[note.lineIndex + 1])
        * (handPos.x - LANE_X_POSITIONS[note.lineIndex + 1])
    + (handPos.y - LAYER_Y_POSITIONS[note.lineLayer + 1])
        * (handPos.y - LAYER_Y_POSITIONS[note.lineLayer + 1])

\* C34: a frame calls onNoteHold for a note only if the note was hit before
\* that frame, is not missed, has length > 0, the frame's clock is strictly
\* before time + length, and the note's own hand is tracked with a planar
\* distance below 0.7 from the note's anchor; the frame that hits a note
\* calls no onNoteHold for it, and no frame calls it twice for one note.
C34_HoldCallbackOnlyWhileHeld ==
    [][ \A j \in DOMAIN emitted' :
          emitted'[j].event = "onNoteHold" =>
            LET n == emitted'[j].note
            IN  /\ notesState[n].hit
                /\ notesState'[n].hit
                /\ ~notesState'[n].missed
                /\ notesState'[n].length > 0
                /\ clock' < notesState'[n].time + notesState'[n].length
                /\ HandPos(hands', notesState'[n]) # Null
                /\ PlanarDistSq(HandPos(hands', notesState'[n]), notesState'[n]) < 700 * 700
                /\ \A k \in DOMAIN emitted' :
                     emitted'[k].note = n => (k = j /\ emitted'[k].event # "onNoteHit")
      ]_vars

\* The last frame called onNoteHold for a note whose hand is 0.65 from the
\* anchor and in front of the player plane or on it.
C34_Witness ==
    \E j \in DOMAIN emitted :
        /\ emitted[j].event = "onNoteHold"
        /\ HandPos(hands, notesState[emitted[j].note]) # Null
        /\ PlanarDistSq(HandPos(hands, notesState[emitted[j].note]),
                        notesState[emitted[j].note]) = 650 * 650

-----------------------------------------------------------------------------
(* The spawn cursor after a frame, checked under Spec *)

\* spawnAheadTime = Math.abs(SPAWN_Z - PLAYER_Z) / NOTE_SPEED, in ms.
SpawnAheadTime == Abs(SPAWN_Z - PLAYER_Z) \div NOTE_SPEED

\* C35: while PLAYING, after every frame, every note of the chart with
\* time - spawnAheadTime <= clock is before the cursor, and the note at the
\* cursor, if there is one, has time - spawnAheadTime > clock; the chart is in
\* time order.
C35_SpawnComplete ==
    gameStatus = "PLAYING" =>
        /\ \A n \in DOMAIN notesState :
             notesState[n].time - SpawnAheadTime <= clock => n <= nextNoteIndexRef
        /\ nextNoteIndexRef < Len(notesState) =>
             notesState[nextNoteIndexRef + 1].time - SpawnAheadTime > clock
        /\ \A a, b \in DOMAIN notesState : a < b => notesState[a].time <= notesState[b].time

\* Two notes of one time have been spawned by one frame, the one at exactly
\* their time less spawnAheadTime.
C35_Witness ==
    /\ Len(notesState) = 2
    /\ notesState[1].time = notesState[2].time
    /\ nextNoteIndexRef = 2
    /\ clock = notesState[1].time - SpawnAheadTime

\* The first note has been spawned and the second, of a later time, is at the
\* cursor and not yet due.
C35_WitnessCursorWaits ==
    /\ Len(notesState) = 2
    /\ nextNoteIndexRef = 1
    /\ notesState[1].time - SpawnAheadTime <= clock
    /\ notesState[2].time - SpawnAheadTime > clock

-----------------------------------------------------------------------------
(* App's score, combo, multiplier and health under the callbacks of a game *)

\* A frame calls at most this many callbacks.
MaxBatch == 3

\* Callbacks are made while the score is below this: enough for a combo
\* beyond 10.
MaxScore == 1500

\* The callbacks a frame may make, in the order it makes them: hits and
\* misses of the notes of a chart (note 1 stands for any of them).
ScoreBatches ==
    UNION { [1..n -> { [event |-> ev, note |-> 1] : ev \in {"onNoteHit", "onNoteMiss"} }] :
              n \in 1..MaxBatch }

\* A game has just started, in STANDARD mode.
InitScore ==
    /\ Init
    /\ gameMode = "STANDARD"
    /\ Len(chart) = 1
    /\ chart[1].time = LEAD_IN_TIME
    /\ chart[1].type = "left"

\* A frame has made the callbacks out, and App has rendered.  No frame runs
\* once the timeout that ends the game has been set and before it fires.
CallbackBatch ==
    /\ gameStatus = "PLAYING"
    /\ pendingStatus = <<>>
    /\ ~endGameDue
    /\ score < MaxScore
    /\ \E out \in ScoreBatches :
        /\ emitted' = out
        /\ \E a \in { AfterCallbacks(ScoreState, out, multiplier, FALSE, batched) :
                        batched \in BOOLEAN } :
            /\ score' = a.score
            /\ combo' = a.combo
            /\ multiplier' = a.multiplier
            /\ health' = a.health
            /\ endGameDue' = a.endGameDue
    /\ keysoundThrew' = FALSE
    /\ UNCHANGED <<gameStatus, gameMode, chart, notesState, activeNotesRef,
                   nextNoteIndexRef, clock, hands, hitCalls, missCalls, transport,
                   pendingStatus, pausedAt, genVars, renderVars, replayVars,
                   sceneVars, uiVars>>

\* Mutant of endGame: the transport is neither stopped nor cancelled.
endGameTransportRuns(victory) ==
    /\ pendingStatus' = << IF victory THEN "VICTORY" ELSE "GAME_OVER" >>
    /\ UNCHANGED <<transport, clock, pausedAt, scheduled>>

\* endGame(victory): setGameStatus is queued for the next render;
\* Tone.Transport.stop() and cancel() take effect at once, so the position is
\* back at 0 and nothing is scheduled any more.
endGame(victory) ==
    /\ pendingStatus' = << IF victory THEN "VICTORY" ELSE "GAME_OVER" >>
    /\ transport' = "stopped"
    /\ clock' = 0
    /\ pausedAt' = <<>>
    /\ scheduled' = <<>>

\* The timeout handleNoteMiss has set fires: endGame(false).
EndGameTimeout ==
    /\ endGameDue
    /\ endGameDue' = FALSE
    /\ endGame(FALSE)
    /\ UNCHANGED <<gameStatus, gameMode, chart, notesState, activeNotesRef,
                   nextNoteIndexRef, hands, emitted, hitCalls, missCalls, genVars,
                   renderVars, replayVars, sceneVars, score, combo, multiplier, health,
                   keysoundThrew, errorMessage, selectedSong, isSongLoading, loading,
                   preloaded, countdown, intervals>>

NextScore == CallbackBatch \/ EndGameTimeout \/ CommitStatus

SpecScore == InitScore /\ [][NextScore]_vars

\* The step is a frame with callbacks: every hit raises the score.
CallbackStep == score' # score \/ health' # health

\* Health after the callbacks out, from h: a hit adds 2 up to 100, a miss
\* takes 15 down to 0.
RECURSIVE HealthAfter(_, _)
HealthAfter(h, out) ==
    IF out = <<>> THEN h
    ELSE HealthAfter(IF Head(out).event = "onNoteHit"
                     THEN (IF h + 2 > 100 THEN 100 ELSE h + 2)
                     ELSE (IF h - 15 < 0 THEN 0 ELSE h - 15),
                     Tail(out))

\* One of the misses of out, from h, finds health at 15 or less.
RECURSIVE RunsOut(_, _)
RunsOut(h, out) ==
    IF out = <<>> THEN FALSE
    ELSE \/ (Head(out).event = "onNoteMiss" /\ h - 15 <= 0)
         \/ RunsOut(HealthAfter(h, <<Head(out)>>), Tail(out))

\* C37: health is always within 0..100; after the callbacks of a frame it is
\* what adding 2 per hit, capped at 100, and taking 15 per miss, floored at
\* 0, in their order gives; the end of the game is due exactly when one of
\* the misses brought health to 0 or below, and the status the game then
\* takes is GAME_OVER.
C37_HealthBounded ==
    /\ [](health \in 0..100)
    /\ [][ CallbackStep =>
             /\ health' = HealthAfter(health, emitted')
             /\ endGameDue' = RunsOut(health, emitted') ]_vars
    /\ [][ (endGameDue /\ ~endGameDue') => pendingStatus' = <<"GAME_OVER">> ]_vars
    /\ [][ gameStatus' # gameStatus => gameStatus' = "GAME_OVER" ]_vars

\* The game is over after hits that had health capped at 100 and misses that
\* brought it from 13 to 0.
C37_Witness ==
    /\ gameStatus = "GAME_OVER"
    /\ health = 0
    /\ score > 0
    /\ ~endGameDue

\* The multiplier the claim gives for a combo.
MultiplierFor(c) ==
    IF c > 30 THEN 8 ELSE IF c > 20 THEN 4 ELSE IF c > 10 THEN 2 ELSE 1

\* The combo after the callbacks out, from c.
RECURSIVE ComboAfter(_, _)
ComboAfter(c, out) ==
    IF out = <<>> THEN c
    ELSE ComboAfter(IF Head(out).event = "onNoteHit" THEN c + 1 ELSE 0, Tail(out))

\* C38: the multiplier is always 8 for a combo above 30, 4 above 20, 2 above
\* 10 and 1 otherwise; after the callbacks of a frame the combo is what adding
\* 1 per hit and setting 0 per miss, in their order, gives.
C38_MultiplierFollowsCombo ==
    /\ [](multiplier = MultiplierFor(combo))
    /\ [][ CallbackStep => combo' = ComboAfter(combo, emitted') ]_vars

-----------------------------------------------------------------------------
(* A song from its selection to the end of the game, and again *)

\* The games started on one input.
MaxGames == 2

\* The clock's advance between two frames of this specification.
LifeSteps == {1000}

\* Frames run while the clock is at most this: beyond the end of the longer
\* song (6.2 + 3 + 2 s).
MaxLifeClock == 12000

\* The inputs: a melodic track of one note, or of seven notes a second apart
\* (seven misses bring health from 100 to 0).
LifeLead(t) == [time |-> t, midi |-> 62, name |-> NoteName(62), velocity |-> 80, duration |-> 200]

LifeInputs ==
    { << [percussion |-> FALSE, channel |-> 0, notes |-> <<LifeLead(0)>>] >>,
      << [percussion |-> FALSE, channel |-> 0,
          notes |-> [k \in 1..7 |-> LifeLead(1000 * (k - 1))]] >> }

\* The song list is shown, as in InitApp.
InitLife ==
    /\ difficulty = "Medium"
    /\ midi \in LifeInputs
    /\ genPc = "idle"
    /\ allEvents = <<>>
    /\ i = 1
    /\ notes = <<>>
    /\ backgroundEvents = <<>>
    /\ idCount = 0
    /\ lastTimeForHand = [h \in HandTypes |-> -2000]
    /\ returned = <<>>
    /\ EngineIdle
    /\ AppIdle

\* The songs are preloaded once the song list has loaded.
PreloadStartLife == gameStatus = "SONG_SELECTION" /\ PreloadStart

\* handleSongSelect, for the games of this specification.  A click comes
\* after the zero-delay timeout of the game before has fired.
SongSelectLife == intervals < MaxGames /\ ~endGameDue /\ SongSelect

\* A frame of the game, the handlers it calls and the render that follows.
\* No frame runs between endGame and the render that unmounts GameScene.
FrameLife ==
    /\ pendingStatus = <<>>
    /\ FrameUpTo(LifeSteps, ScenePoses, MaxLifeClock)
    /\ \E a \in { AfterCallbacks(ScoreState, emitted', multiplier, FALSE, batched) :
                     batched \in BOOLEAN } :
        /\ score' = a.score
        /\ combo' = a.combo
        /\ multiplier' = a.multiplier
        /\ health' = a.health
        /\ endGameDue' = a.endGameDue
    /\ keysoundThrew' = FALSE
    /\ shakeIntensity' =
           IF \E n \in NewlyHit : ~AutoPlayHit(gameMode, notesState[n], clock')
           THEN 300
           ELSE ShakeDecay(shakeIntensity, clock' - clock)
    /\ RenderAfterFrame
    /\ UNCHANGED <<renderVars, replayVars, uiVars>>

\* The transport reaches the event startMusic scheduled at
\* midi.duration + LEAD_IN_TIME + 2: endGame(true).
SongEnd ==
    /\ transport = "started"
    /\ \E j \in DOMAIN scheduled :
        /\ scheduled[j].instrument = "end"
        /\ clock >= scheduled[j].time
    /\ endGame(TRUE)
    /\ UNCHANGED <<gameStatus, gameMode, chart, notesState, activeNotesRef,
                   nextNoteIndexRef, hands, emitted, hitCalls, missCalls, genVars,
                   renderVars, replayVars, sceneVars, scoreVars, errorMessage,
                   selectedSong, isSongLoading, loading, preloaded, countdown, intervals>>

NextLife ==
    \/ PreloadStartLife \/ SongSelectLife \/ LoadFail \/ LoadGenerate \/ GenStep \/ GenReturn
    \/ PreloadDone \/ LoadDone \/ FrameLife \/ SongEnd \/ EndGameTimeout \/ CommitStatus

SpecLife == InitLife /\ [][NextLife]_vars

\* The clock advances while the transport is started, the frame loop runs on
\* every animation frame, the transport and the timers fire their callbacks
\* and React renders after a state update.
SpecLifeFair ==
    /\ SpecLife
    /\ WF_vars(FrameLife)
    /\ WF_vars(SongEnd)
    /\ WF_vars(EndGameTimeout)
    /\ WF_vars(CommitStatus)

\* The step starts a game.
GameStarts == gameStatus # "PLAYING" /\ gameStatus' = "PLAYING"

\* C36: a step that starts a game, the first of a song or a retry, leaves
\* every note of GameScene without hit, missed, isHolding and hitTime, the
\* active list empty and the spawn cursor at 0, and the chart and the notes
\* of GameScene are those of a chart generateChartFromMidi returned, with
\* LEAD_IN_TIME added to each time once; what generateChartFromMidi returned,
\* the cached chart included, never changes.
C36_GameStartsFresh ==
    /\ [][ GameStarts =>
             /\ \A k \in DOMAIN notesState' :
                   /\ ~notesState'[k].hit
                   /\ ~notesState'[k].missed
                   /\ ~notesState'[k].isHolding
                   /\ notesState'[k].hitTime = <<>>
             /\ activeNotesRef' = <<>>
             /\ nextNoteIndexRef' = 0
             /\ \E r \in DOMAIN returned' :
                   /\ preloaded' # <<>> => r = preloaded'[1]
                   /\ DOMAIN chart' = DOMAIN returned'[r].chart
                   /\ DOMAIN notesState' = DOMAIN chart'
                   /\ \A k \in DOMAIN chart' :
                         /\ chart'[k] = [returned'[r].chart[k] EXCEPT
                                            !.time = @ + LEAD_IN_TIME]
                         /\ notesState'[k].time = returned'[r].chart[k].time + LEAD_IN_TIME ]_vars
    /\ [][ \A r \in DOMAIN returned :
             r \in DOMAIN returned' /\ returned'[r] = returned[r] ]_vars

\* The second game of the seven-note song has started from the cached chart,
\* after a first game that was played to its end.
C36_Witness ==
    /\ gameStatus = "PLAYING"
    /\ intervals = 2
    /\ preloaded # <<>>
    /\ Len(chart) = 7
    /\ chart[7].time = 6000 + LEAD_IN_TIME
    /\ nextNoteIndexRef = 0
    /\ clock = 0

\* endGame(true) is called in this step.
VictoryCalled == pendingStatus' = <<"VICTORY">> /\ pendingStatus # <<"VICTORY">>

\* endGame(false) is called in this step.
GameOverCalled == pendingStatus' = <<"GAME_OVER">> /\ pendingStatus # <<"GAME_OVER">>

\* C39: with the clock advancing, a game that is PLAYING leaves PLAYING;
\* the game is ended as a victory only with the clock at
\* midi.duration + LEAD_IN_TIME + 2 s or later, and as GAME_OVER only after a
\* miss found health at 15 or less; the status GAME_OVER, pending or
\* rendered, is never followed by VICTORY without a new game in between.
C39_GameEnds ==
    /\ (gameStatus = "PLAYING") ~> (gameStatus # "PLAYING")
    /\ [][ VictoryCalled =>
             /\ gameStatus = "PLAYING"
             /\ clock >= MidiDuration + LEAD_IN_TIME + 2000 ]_vars
    /\ [][ GameOverCalled => endGameDue /\ health <= 2 * Len(chart) ]_vars
    /\ [][ (gameStatus = "GAME_OVER" \/ pendingStatus = <<"GAME_OVER">>) =>
             /\ gameStatus' # "VICTORY"
             /\ pendingStatus' # <<"VICTORY">> ]_vars

\* The seven-note song ended as GAME_OVER with health at 0 after seven
\* misses, the song-end event cancelled.
C39_Witness ==
    /\ gameStatus = "GAME_OVER"
    /\ health = 0
    /\ Len(chart) = 7
    /\ \A k \in DOMAIN notesState : notesState[k].missed
    /\ scheduled = <<>>

\* A game ended as a victory after misses.
C39_WitnessVictory ==
    /\ gameStatus = "VICTORY"
    /\ health < 100
    /\ \A k \in DOMAIN notesState : notesState[k].hit \/ notesState[k].missed

====
